---- MODULE Spec2Model ----
(***************************************************************************)
(* Tankobon organiser: inference of volume / chapter numbers from          *)
(* directory names, the rename plan (Transform) and its execution.         *)
(*                                                                         *)
(* Text is modelled as a sequence of one-character strings, so that        *)
(* scanning (extract_numbers, from_roman, the template scanner) and        *)
(* rendering (to_roman, zero padding) are computed character by character. *)
(* A Python Optional is a sequence of length 0 (None) or 1.                *)
(* A call that may raise returns a record [ok, val, err].                  *)
(***************************************************************************)
EXTENDS Integers, Sequences, FiniteSets, TLC

VARIABLES
    pc,      \* position of the program (Main.__init__ / Main.exec / Transform.run)
    opt,     \* Options object (Main.opt)
    disk,    \* the directory tree: set of [path, id] entries
    series,  \* Main.target: result of Series(opt)
    tree,    \* Main.tree: result of Series.transform()
    log,     \* what the logger has been handed (reports)
    moves,   \* history of the os.replace calls made by Transform.run
    ip,      \* index of the next plan entry Transform.run reaches
    mode,    \* the work mode Transform.run was entered with
    exc,     \* the exception that ended the program, or None
    status,  \* the exit status Main.exec returned, or None
    arg,     \* argument of a library call (function-level specifications)
    ret      \* results of the library calls made so far, in call order

vars == <<pc, opt, disk, series, tree, log, moves, ip, mode, exc, status, arg, ret>>

\* the state of the program proper, untouched by the library-call specifications
progVars == <<opt, disk, series, tree, log, moves, ip, mode, exc, status>>

-----------------------------------------------------------------------------
(* Generic helpers *)

None == <<>>
Some(x) == <<x>>
IsNone(o) == Len(o) = 0
Get(o) == o[1]

Ok(v) == [ok |-> TRUE, val |-> v, err |-> "", name |-> <<>>]
Raise(e, v) == [ok |-> FALSE, val |-> v, err |-> e, name |-> <<>>]

Max(a, b) == IF a >= b THEN a ELSE b

With(v, Body(_)) == Body(v)

RECURSIVE Concat(_)
Concat(ss) == IF Len(ss) = 0 THEN <<>> ELSE Head(ss) \o Concat(Tail(ss))

Reverse(s) == [i \in 1..Len(s) |-> s[Len(s) + 1 - i]]

\* index of the first element of s satisfying Eq(x, _), or 0
RECURSIVE IndexFrom(_, _, _, _)
IndexFrom(Eq(_, _), x, s, i) ==
    IF i > Len(s) THEN 0
    ELSE IF Eq(x, s[i]) THEN i
    ELSE IndexFrom(Eq, x, s, i + 1)

RemoveAt_keep(s, i) == s

RemoveAt(s, i) == SubSeq(s, 1, i - 1) \o SubSeq(s, i + 1, Len(s))

-----------------------------------------------------------------------------
(* Characters and integers as text *)

DigitChars == <<"0", "1", "2", "3", "4", "5", "6", "7", "8", "9">>
IsDigit(c) == \E d \in 1..10 : DigitChars[d] = c
DigitVal(c) == (CHOOSE d \in 1..10 : DigitChars[d] = c) - 1

\* int(txt) for a run of digits
RECURSIVE ParseInt(_, _)
ParseInt(txt, acc) ==
    IF Len(txt) = 0 THEN acc
    ELSE ParseInt(Tail(txt), acc * 10 + DigitVal(Head(txt)))

\* str(n) for n >= 0
RECURSIVE IntStr(_)
IntStr(n) ==
    IF n < 10 THEN <<DigitChars[n + 1]>>
    ELSE IntStr(n \div 10) \o <<DigitChars[(n % 10) + 1]>>

\* format(n, '0{w}d') for n >= 0
RECURSIVE ZeroPad(_, _)
ZeroPad(txt, w) == IF Len(txt) >= w THEN txt ELSE ZeroPad(<<"0">> \o txt, w)

\* str.upper() on the letters the roman parser looks at
Upper(c) ==
    CASE c = "i" -> "I" [] c = "v" -> "V" [] c = "x" -> "X" [] c = "l" -> "L"
      [] c = "c" -> "C" [] c = "d" -> "D" [] c = "m" -> "M" [] OTHER -> c

-----------------------------------------------------------------------------
(* UNumber: unumber.py *)

R_VALUES == [I |-> 1, V |-> 5, X |-> 10, L |-> 50, C |-> 100, D |-> 500, M |-> 1000]

R_INV == <<
    << <<>>, <<"I">>, <<"I","I">>, <<"I","I","I">>, <<"I","V">>, <<"V">>,
       <<"V","I">>, <<"V","I","I">>, <<"V","I","I","I">>, <<"I","X">> >>,
    << <<>>, <<"X">>, <<"X","X">>, <<"X","X","X">>, <<"X","L">>, <<"L">>,
       <<"L","X">>, <<"L","X","X">>, <<"L","X","X","X">>, <<"X","C">> >>,
    << <<>>, <<"C">>, <<"C","C">>, <<"C","C","C">>, <<"C","D">>, <<"D">>,
       <<"D","C">>, <<"D","C","C">>, <<"D","C","C","C">>, <<"C","M">> >>,
    << <<>>, <<"M">>, <<"M","M">>, <<"M","M","M">>, <<"M","M","M","M">> >>
>>

\* to_roman accepts 0 < value < RomanLimit
RomanLimit == 5000

RECURSIVE from_roman_loop_last(_, _, _, _)
from_roman_loop_last(txt, i, value, highest) ==
    IF i = 0 THEN Ok(value)
    ELSE LET c == Upper(txt[i]) IN
         IF c \notin DOMAIN R_VALUES THEN Raise("ValueError", 0)
         ELSE LET v == R_VALUES[c] IN
              IF v >= highest
              THEN from_roman_loop_last(txt, i - 1, value + v, v)
              ELSE IF v \notin {1, 10, 100} \/ highest \div v > 10
                   THEN Raise("ValueError", 0)
                   ELSE from_roman_loop_last(txt, i - 1, value - v, v)

\* the loop of from_roman, scanning txt from its last character to its first
RECURSIVE from_roman_loop(_, _, _, _)
from_roman_loop(txt, i, value, highest) ==
    IF i = 0 THEN Ok(value)
    ELSE LET c == Upper(txt[i]) IN
         IF c \notin DOMAIN R_VALUES THEN Raise("ValueError", 0)
         ELSE LET v == R_VALUES[c] IN
              IF v >= highest
              THEN from_roman_loop(txt, i - 1, value + v, v)
              ELSE IF v \notin {1, 10, 100} \/ highest \div v > 10
                   THEN Raise("ValueError", 0)
                   ELSE from_roman_loop(txt, i - 1, value - v, highest)

from_roman_bad(txt) == from_roman_loop(Reverse(txt), Len(txt), 0, 0)

from_roman(txt) == from_roman_loop(txt, Len(txt), 0, 0)

\* the loop of to_roman: the fragments, least significant place first
RECURSIVE to_roman_loop(_, _)
to_roman_loop(value, scale) ==
    IF value = 0 THEN <<>>
    ELSE <<R_INV[scale + 1][(value % 10) + 1]>> \o to_roman_loop(value \div 10, scale + 1)

to_roman(value) ==
    IF ~(0 < value /\ value < RomanLimit) THEN Raise("ValueError", <<>>)
    ELSE Ok(Concat(Reverse(to_roman_loop(value, 0))))

\* a UNumber object: _value and _dec (None for whole numbers)
UN(value, dec) == [whole |-> value, dec |-> dec, int |-> FALSE]

\* position of the first "." of txt, or 0
RECURSIVE DotAt(_, _)
DotAt(txt, i) ==
    IF i > Len(txt) THEN 0 ELSE IF txt[i] = "." THEN i ELSE DotAt(txt, i + 1)

IsDigits(txt) == Len(txt) > 0 /\ \A i \in 1..Len(txt) : IsDigit(txt[i])

\* UNumber.__init__ on a string
UNumberInit(txt) ==
    LET d == DotAt(txt, 1) IN
    IF d > 0 THEN
        LET a == SubSeq(txt, 1, d - 1)
            b == SubSeq(txt, d + 1, Len(txt))
        IN IF IsDigits(a) /\ IsDigits(b)
           THEN Ok(UN(ParseInt(a, 0), Some(ParseInt(b, 0))))
           ELSE Raise("ValueError", UN(0, None))
    ELSE IF IsDigits(txt) THEN Ok(UN(ParseInt(txt, 0), None))
    ELSE LET r == from_roman(txt) IN
         IF r.ok THEN Ok(UN(r.val, None)) ELSE Raise("ValueError", UN(0, None))

\* UNumber.is_normal
UIsNormal_always(u) == TRUE
UIsNormal(u) == IsNone(u.dec)

\* UNumber.__format__ with the roman specification 'r'
UFormatRoman(u) == to_roman(u.whole)

\* UNumber.__format__ with an arabic specification '0{w}d'
UFormatArabic(u, w) ==
    LET s == ZeroPad(IntStr(u.whole), w) IN
    IF IsNone(u.dec) THEN s ELSE s \o <<".">> \o IntStr(Get(u.dec))

\* UNumber.__eq__ between two UNumber objects
UEq(a, b) == a.whole = b.whole /\ a.dec = b.dec

\* a plain Python int held in the same lists as UNumber objects
PyInt(n) == [whole |-> n, dec |-> None, int |-> TRUE]

\* Python's a == b between members of the number lists: int with int,
\* UNumber.__eq__ between two UNumber, and UNumber.__eq__(int) otherwise:
\* a true decimal part compares as a float, which no integer equals for
\* decimal parts of a few digits; a decimal part None or 0 compares int(self)
PyEq(a, b) ==
    IF a.int /\ b.int THEN a.whole = b.whole
    ELSE IF ~a.int /\ ~b.int THEN UEq(a, b)
    ELSE LET u == IF a.int THEN b ELSE a
             n == IF a.int THEN a ELSE b
         IN IF ~IsNone(u.dec) /\ Get(u.dec) # 0 THEN FALSE ELSE u.whole = n.whole

\* x in lst
PyIn(x, lst) == \E i \in 1..Len(lst) : PyEq(x, lst[i])

PyRemove_keep(x, lst) == lst

\* lst.remove(x) for an x known to be in lst
PyRemove(x, lst) == RemoveAt(lst, IndexFrom(PyEq, x, lst, 1))

\* first index at or after i that holds no character of the class
RECURSIVE RunEnd(_, _, _)
RunEnd(In(_), txt, i) ==
    IF i > Len(txt) \/ ~In(txt[i]) THEN i ELSE RunEnd(In, txt, i + 1)

\* _A_Match.findall: the matches of \d+(?:\.\d+)? from left to right
RECURSIVE FindArabic(_, _)
FindArabic(txt, i) ==
    IF i > Len(txt) THEN <<>>
    ELSE IF ~IsDigit(txt[i]) THEN FindArabic(txt, i + 1)
    ELSE LET j == RunEnd(IsDigit, txt, i) IN
         IF j < Len(txt) /\ txt[j] = "." /\ IsDigit(txt[j + 1])
         THEN LET k == RunEnd(IsDigit, txt, j + 1) IN
              <<SubSeq(txt, i, k - 1)>> \o FindArabic(txt, k)
         ELSE <<SubSeq(txt, i, j - 1)>> \o FindArabic(txt, j)

IsRomanChar(c) == c \in DOMAIN R_VALUES

\* _R_Match.findall: the maximal runs of [IVXLCDM]
RECURSIVE FindRoman(_, _)
FindRoman(txt, i) ==
    IF i > Len(txt) THEN <<>>
    ELSE IF ~IsRomanChar(txt[i]) THEN FindRoman(txt, i + 1)
    ELSE LET j == RunEnd(IsRomanChar, txt, i) IN
         <<SubSeq(txt, i, j - 1)>> \o FindRoman(txt, j)

\* UNumber.extract_numbers: every match parsed, in order of appearance
extract_numbers(txt, roman) ==
    With(IF roman THEN FindRoman(txt, 1) ELSE FindArabic(txt, 1), LAMBDA found :
    With([i \in 1..Len(found) |-> UNumberInit(found[i])], LAMBDA parsed :
       IF \E i \in 1..Len(found) : ~parsed[i].ok
       THEN Raise("ValueError", <<>>)
       ELSE Ok([i \in 1..Len(found) |-> parsed[i].val])))

-----------------------------------------------------------------------------
(* Node: nestable.py.  A node is a record [name, number, hoaxes, extra,    *)
(* nodes]; the parent back-reference is replaced by the value the node     *)
(* reads through it: parent.spurious(), a record [hoax, top], or None when *)
(* the node has no parent.                                                 *)

MkNode(name, number, hoaxes, extra) ==
    [name |-> name, number |-> number, hoaxes |-> hoaxes, extra |-> extra, nodes |-> <<>>]

\* Base.spurious of the Series root: its hoaxes, and no level number
BaseSpurious(hoaxes) == [hoax |-> hoaxes, top |-> <<>>]

\* Node.spurious: own hoaxes and level number, then the parent's
spurious(node, up) ==
    LET level == IF IsNone(node.number) THEN <<>> ELSE <<PyInt(Get(node.number).whole)>>
    IN IF IsNone(up) THEN [hoax |-> node.hoaxes, top |-> level]
       ELSE [hoax |-> node.hoaxes \o Get(up).hoax, top |-> level \o Get(up).top]

\* the loop over the hoaxes of _rm_spurious: stops when one number is left
rm_hoax_none(numbers, hoax, i) == numbers
RECURSIVE rm_hoax_loop(_, _, _)
rm_hoax_loop(numbers, hoax, i) ==
    IF i > Len(hoax) \/ Len(numbers) = 1 THEN numbers
    ELSE IF PyIn(hoax[i], numbers)
         THEN rm_hoax_loop(PyRemove(hoax[i], numbers), hoax, i + 1)
         ELSE rm_hoax_loop(numbers, hoax, i + 1)

RECURSIVE rm_top_loop_greedy(_, _, _, _)
rm_top_loop_greedy(numbers, top, i, greedy) ==
    IF i > Len(top) THEN numbers
    ELSE IF PyIn(top[i], numbers)
         THEN rm_top_loop_greedy(PyRemove(top[i], numbers), top, i + 1, greedy)
         ELSE rm_top_loop_greedy(numbers, top, i + 1, greedy)

\* the loop over the level numbers of _rm_spurious
RECURSIVE rm_top_loop(_, _, _, _)
rm_top_loop(numbers, top, i, greedy) ==
    IF i > Len(top) \/ (~greedy /\ Len(numbers) = 1) THEN numbers
    ELSE IF PyIn(top[i], numbers)
         THEN rm_top_loop(PyRemove(top[i], numbers), top, i + 1, greedy)
         ELSE rm_top_loop(numbers, top, i + 1, greedy)

\* Node._rm_spurious; up is parent.spurious(), None without a parent
rm_spurious(numbers, up, greedy) ==
    IF IsNone(up) THEN numbers
    ELSE rm_top_loop(rm_hoax_loop(numbers, Get(up).hoax, 1), Get(up).top, 1, greedy)

\* x in expected, for the list of integers expected
InExpected(x, expected) == \E i \in 1..Len(expected) : PyEq(x, PyInt(expected[i]))

SelectIn(numbers, expected) == SelectSeq(numbers, LAMBDA x : InExpected(x, expected))

RaiseName(e, name) == [ok |-> FALSE, val |-> <<>>, err |-> e, name |-> name]

guess_nongreedy(name, expected, numbers, up) ==
    IF Len(numbers) = 0 THEN Ok([number |-> None, hoax |-> <<>>])
    ELSE With(SelectIn(numbers, expected), LAMBDA g :
         IF Len(g) = 0 THEN
             With(rm_spurious(numbers, up, FALSE), LAMBDA rest :
                IF Len(rest) = 0 THEN Ok([number |-> None, hoax |-> <<>>])
                ELSE Ok([number |-> Some(Head(rest)), hoax |-> Tail(rest)]))
         ELSE IF Len(g) = 1 THEN
             Ok([number |-> Some(g[1]), hoax |-> PyRemove(g[1], numbers)])
         ELSE RaiseName("CannotChooseError", name))

guess_first(name, expected, numbers, up) ==
    IF Len(numbers) = 0 THEN Ok([number |-> None, hoax |-> <<>>])
    ELSE With(SelectIn(numbers, expected), LAMBDA g :
         IF Len(g) = 0 THEN
             With(rm_spurious(numbers, up, TRUE), LAMBDA rest :
                IF Len(rest) = 0 THEN Ok([number |-> None, hoax |-> <<>>])
                ELSE Ok([number |-> Some(Head(rest)), hoax |-> Tail(rest)]))
         ELSE Ok([number |-> Some(g[1]), hoax |-> PyRemove(g[1], numbers)]))

\* Node._guess: Ok([number, hoax]) or CannotChooseError(name)
guess(name, expected, numbers, up) ==
    IF Len(numbers) = 0 THEN Ok([number |-> None, hoax |-> <<>>])
    ELSE With(SelectIn(numbers, expected), LAMBDA g :
         IF Len(g) = 0 THEN
             With(rm_spurious(numbers, up, TRUE), LAMBDA rest :
                IF Len(rest) = 0 THEN Ok([number |-> None, hoax |-> <<>>])
                ELSE Ok([number |-> Some(Head(rest)), hoax |-> Tail(rest)]))
         ELSE IF Len(g) = 1 THEN
             Ok([number |-> Some(g[1]), hoax |-> PyRemove(g[1], numbers)])
         ELSE RaiseName("CannotChooseError", name))

\* UNumber.normalize: a decimal part equal to 0 is dropped
UNormalize(u) ==
    IF ~IsNone(u.dec) /\ Get(u.dec) = 0 THEN UN(u.whole, None) ELSE u

\* Node.__init__ / Node._parse_number.  expected is None (no numbering) or
\* Some(list of integers); o is the OptGroup of the level.
\* Ok([node, expected, special]) or the exception raised.
parse_number(name, expected, up, o) ==
    With(extract_numbers(name, o.roman), LAMBDA ex :
    IF ~ex.ok THEN RaiseName("ValueError", name)
    ELSE IF IsNone(expected)
    THEN Ok([node |-> MkNode(name, None, ex.val, None), expected |-> expected])
    ELSE With(guess(name, Get(expected), rm_spurious(ex.val, up, FALSE), up), LAMBDA g :
         IF ~g.ok THEN g
         ELSE IF IsNone(g.val.number)
         THEN Ok([node |-> MkNode(name, None, g.val.hoax, o.bonus), expected |-> expected])
         ELSE With(IF o.normalize THEN UNormalize(Get(g.val.number)) ELSE Get(g.val.number),
                   LAMBDA number :
              LET pool == Get(expected) IN
              IF ~UIsNormal(number)
              THEN Ok([node |-> MkNode(name, Some(number), g.val.hoax, None),
                       expected |-> expected])
              ELSE IF \E i \in 1..Len(pool) : pool[i] = number.whole
              THEN Ok([node |-> MkNode(name, Some(number), g.val.hoax, None),
                       expected |-> Some(RemoveAt(pool,
                           CHOOSE i \in 1..Len(pool) :
                               /\ pool[i] = number.whole
                               /\ \A j \in 1..(i - 1) : pool[j] # number.whole))])
              ELSE Ok([node |-> MkNode(name, Some(number), g.val.hoax, o.special),
                       expected |-> expected]))))

\* Base.skip for a node
skip(node) == IsNone(node.number)

\* Base.is_normal for a node (None counts as false)
is_normal(node) == ~IsNone(node.number) /\ UIsNormal(Get(node.number))

\* Base.__int__ for a node
NodeInt(node) == IF IsNone(node.number) THEN 0 ELSE Get(node.number).whole

\* UNumber._tuple and UNumber.__lt__
UTuple(u) == <<u.whole, IF ~IsNone(u.dec) /\ Get(u.dec) # 0 THEN Get(u.dec) ELSE 0>>
ULt(a, b) ==
    \/ UTuple(a)[1] < UTuple(b)[1]
    \/ UTuple(a)[1] = UTuple(b)[1] /\ UTuple(a)[2] < UTuple(b)[2]

\* a > b as functools.total_ordering derives it from __lt__ and __eq__:
\* not a < b and a != b
UGt(a, b) == ~ULt(a, b) /\ ~UEq(a, b)

-----------------------------------------------------------------------------
(* Order of text and of nodes, and list.sort *)

\* the characters used in names, in code point order
Alphabet == <<" ", "%", "-", ".", "0", "1", "2", "3", "4", "5", "6", "7", "8", "9",
              "A", "B", "C", "D", "E", "F", "G", "H", "I", "J", "K", "L", "M",
              "N", "O", "P", "Q", "R", "S", "T", "U", "V", "W", "X", "Y", "Z", "_",
              "a", "b", "c", "d", "e", "f", "g", "h", "i", "j", "k", "l", "m",
              "n", "o", "p", "q", "r", "s", "t", "u", "v", "w", "x", "y", "z">>

Ord(c) == CHOOSE i \in 1..Len(Alphabet) : Alphabet[i] = c

\* str.__lt__
RECURSIVE StrLt(_, _)
StrLt(a, b) ==
    IF Len(b) = 0 THEN FALSE
    ELSE IF Len(a) = 0 THEN TRUE
    ELSE IF Head(a) = Head(b) THEN StrLt(Tail(a), Tail(b))
    ELSE Ord(Head(a)) < Ord(Head(b))

NodeLt_names(a, b) == StrLt(a.name, b.name)

\* Node.__lt__
NodeLt(a, b) ==
    IF IsNone(a.number) THEN FALSE
    ELSE IF IsNone(b.number) THEN TRUE
    ELSE IF UEq(Get(a.number), Get(b.number))
    THEN IF IsNone(a.extra) THEN TRUE
         ELSE IF IsNone(b.extra) THEN FALSE
         ELSE StrLt(Get(a.extra), Get(b.extra))
    ELSE ULt(Get(a.number), Get(b.number))

\* list.sort of CPython on a list shorter than 64: the leading run is
\* counted (a strictly descending one is reversed), the rest is placed by
\* binary insertion; only `lt` is ever asked.
RECURSIVE DescRun(_, _, _)
DescRun(Lt(_, _), a, i) ==
    IF i <= Len(a) /\ Lt(a[i], a[i - 1]) THEN DescRun(Lt, a, i + 1) ELSE i - 1

RECURSIVE AscRun(_, _, _)
AscRun(Lt(_, _), a, i) ==
    IF i <= Len(a) /\ ~Lt(a[i], a[i - 1]) THEN AscRun(Lt, a, i + 1) ELSE i - 1

RECURSIVE BinPos(_, _, _, _, _)
BinPos(Lt(_, _), a, pivot, l, r) ==
    IF l >= r THEN l
    ELSE LET m == l + ((r - l) \div 2) IN
         IF Lt(pivot, a[m]) THEN BinPos(Lt, a, pivot, l, m)
         ELSE BinPos(Lt, a, pivot, m + 1, r)

RECURSIVE BinarySort(_, _, _)
BinarySort(Lt(_, _), a, start) ==
    IF start > Len(a) THEN a
    ELSE LET pivot == a[start]
             l == BinPos(Lt, a, pivot, 1, start)
             moved == SubSeq(a, 1, l - 1) \o <<pivot>> \o SubSeq(a, l, start - 1)
                      \o SubSeq(a, start + 1, Len(a))
         IN BinarySort(Lt, moved, start + 1)

ListSort(Lt(_, _), a) ==
    IF Len(a) < 2 THEN a
    ELSE IF Lt(a[2], a[1])
    THEN LET n == DescRun(Lt, a, 3) IN
         BinarySort(Lt, Reverse(SubSeq(a, 1, n)) \o SubSeq(a, n + 1, Len(a)), n + 1)
    ELSE BinarySort(Lt, a, AscRun(Lt, a, 3) + 1)

\* sorted(names) of Base._listdir, for a set of names
RECURSIVE SortedNames(_)
SortedNames(names) ==
    IF names = {} THEN <<>>
    ELSE LET m == CHOOSE x \in names : \A y \in names \ {x} : StrLt(x, y)
         IN <<m>> \o SortedNames(names \ {m})

-----------------------------------------------------------------------------
(* Node.__format__ *)

PlaceholderChars == {"l", "m", "n", "r", "p", "s", "u", "R", "t", "_", "%"}

\* re.split(r'(%[lmnrpsuRt_%])', spec): literal runs and two-character
\* placeholders in order (empty literals, which render as nothing, left out)
RECURSIVE SplitSpec(_, _, _)
SplitSpec(spec, i, lit) ==
    LET flush == IF Len(lit) = 0 THEN <<>> ELSE <<lit>> IN
    IF i > Len(spec) THEN flush
    ELSE IF spec[i] = "%" /\ i < Len(spec) /\ spec[i + 1] \in PlaceholderChars
    THEN flush \o <<SubSeq(spec, i, i + 1)>> \o SplitSpec(spec, i + 2, <<>>)
    ELSE SplitSpec(spec, i + 1, lit \o <<spec[i]>>)

\* str.rstrip() for the blank
RECURSIVE RStrip(_)
RStrip(txt) ==
    IF Len(txt) > 0 /\ txt[Len(txt)] = " " THEN RStrip(SubSeq(txt, 1, Len(txt) - 1)) ELSE txt

\* format(float(u), '0{w}f'): six decimals, for a decimal part below 10^6
RECURSIVE ZeroFill(_, _)
ZeroFill(txt, w) == IF Len(txt) >= w THEN txt ELSE ZeroFill(txt \o <<"0">>, w)

UFormatFloat(u, w) ==
    LET d == IF IsNone(u.dec) THEN <<"0">> ELSE IntStr(Get(u.dec))
        frac == IF d = <<"0">> THEN ZeroFill(<<>>, 6) ELSE ZeroFill(d, 6)
    IN ZeroPad(IntStr(u.whole) \o <<".">> \o frac, w)

wide_auto(o, inherited) == inherited

\* Node.wide at level 0: the explicit width of the level, else the width the
\* Series holds for the depth of the node
wide(o, inherited) == IF o.wide >= 0 THEN o.wide ELSE inherited

\* the %n branch for a node that has a number
FormatNumber(number, o, w) ==
    IF o.force THEN UFormatFloat(number, w) ELSE UFormatArabic(number, w)

\* one part of the split template: Ok(Some(text)), Ok(None) when the part
\* is left out, or ValueError.  par is None when the node has no parent or
\* the parent is the Series root, else Some([number, o, w]) of the parent.
FormatPart(part, node, o, w, par) ==
    LET upskip == IsNone(par) \/ IsNone(Get(par).number)
        has == ~IsNone(node.number)
    IN
    IF part = <<"%", "l">> THEN Ok(Some(o.label))
    ELSE IF part = <<"%", "m">> THEN Ok(Some(node.name))
    ELSE IF part = <<"%", "n">> THEN
        IF has THEN Ok(Some(FormatNumber(Get(node.number), o, w))) ELSE Ok(node.extra)
    ELSE IF part = <<"%", "r">> THEN
        IF has THEN LET r == UFormatRoman(Get(node.number)) IN
                    IF r.ok THEN Ok(Some(r.val)) ELSE Raise("ValueError", None)
        ELSE Ok(node.extra)
    ELSE IF part = <<"%", "p">> THEN
        IF has THEN Ok(Some(o.prefix)) ELSE Ok(None)
    ELSE IF part = <<"%", "u">> THEN
        IF upskip THEN Ok(None)
        ELSE Ok(Some(RStrip(FormatNumber(Get(Get(par).number), Get(par).o, Get(par).w))))
    ELSE IF part = <<"%", "R">> THEN
        IF upskip THEN Ok(None)
        ELSE LET r == UFormatRoman(Get(Get(par).number)) IN
             IF r.ok THEN Ok(Some(RStrip(r.val))) ELSE Raise("ValueError", None)
    ELSE IF part = <<"%", "t">> THEN
        IF upskip THEN Ok(None) ELSE Ok(o.upper)
    ELSE IF part = <<"%", "_">> THEN
        IF upskip THEN Ok(None) ELSE Ok(Some(<<" ">>))
    ELSE IF part = <<"%", "s">> THEN
        IF ~has \/ IsNone(node.extra) THEN Ok(None) ELSE Ok(node.extra)
    ELSE IF part = <<"%", "%">> THEN Ok(Some(<<"%">>))
    ELSE IF Head(part) = "%" THEN Raise("ValueError", None)
    ELSE Ok(Some(part))

\* Node.__format__(format_spec): Ok(text) or ValueError
FormatSpec(spec, node, o, w, par) ==
    LET parts == SplitSpec(IF Len(spec) = 0 THEN o.template ELSE spec, 1, <<>>)
        done == [i \in 1..Len(parts) |-> FormatPart(parts[i], node, o, w, par)]
    IN IF \E i \in 1..Len(parts) : ~done[i].ok
       THEN Raise("ValueError", <<>>)
       ELSE Ok(RStrip(Concat([i \in 1..Len(parts) |->
                IF IsNone(done[i].val) THEN <<>> ELSE Get(done[i].val)])))

\* format(node)
Format(node, o, w, par) == FormatSpec(<<>>, node, o, w, par)

-----------------------------------------------------------------------------
(* Volume: nestable.py *)

\* a failed call with the log lines emitted before the exception
Fail(e, name, lg) == [ok |-> FALSE, val |-> <<>>, err |-> e, name |-> name, log |-> lg]
FailAt(e, v, lg) == [ok |-> FALSE, val |-> v, err |-> e, name |-> <<>>, log |-> lg]
Done(v, lg) == [ok |-> TRUE, val |-> v, err |-> "", name |-> <<>>, log |-> lg]

\* [Node(parent, c, expected, opt) for c in names]: the siblings are built in
\* listing order against the one shared pool; lg collects the "Special"
\* lines _parse_number logs
RECURSIVE BuildNodes(_, _, _, _, _, _, _)
BuildNodes(names, i, expected, up, o, acc, lg) ==
    IF i > Len(names) THEN Done([nodes |-> acc, expected |-> expected], lg)
    ELSE With(parse_number(names[i], expected, up, o), LAMBDA r :
         IF ~r.ok THEN Fail(r.err, r.name, lg)
         ELSE LET special == /\ ~IsNone(expected)
                             /\ is_normal(r.val.node)
                             /\ r.val.expected = expected
              IN BuildNodes(names, i + 1, r.val.expected, up, o,
                            Append(acc, r.val.node),
                            IF special
                            THEN Append(lg, [msg |-> "Special", of |-> names[i],
                                             data |-> Get(expected)])
                            ELSE lg))

RECURSIVE TrimLoop_all(_, _, _, _)
TrimLoop_all(nodes, i, numbers, last) ==
    IF i > Len(nodes) THEN Ok(numbers)
    ELSE IF Len(numbers) = 0 THEN Raise("IndexError", <<>>)
    ELSE IF numbers[Len(numbers)] = last
    THEN TrimLoop_all(nodes, i + 1, SubSeq(numbers, 1, Len(numbers) - 1), last - 1)
    ELSE TrimLoop_all(nodes, i + 1, numbers, last)

RECURSIVE TrimLoop_once(_, _, _, _)
TrimLoop_once(nodes, i, numbers, last) ==
    IF i > Len(nodes) THEN Ok(numbers)
    ELSE IF is_normal(nodes[i]) THEN TrimLoop_once(nodes, i + 1, numbers, last)
    ELSE IF Len(numbers) = 0 THEN Raise("IndexError", <<>>)
    ELSE IF numbers[Len(numbers)] = last
    THEN TrimLoop_once(nodes, i + 1, SubSeq(numbers, 1, Len(numbers) - 1), last)
    ELSE TrimLoop_once(nodes, i + 1, numbers, last)

\* the loop of Volume.populate that drops the top slot for a chapter that is
\* not normal: Ok(numbers left) or IndexError on numbers[-1] of an empty list
RECURSIVE TrimLoop(_, _, _, _)
TrimLoop(nodes, i, numbers, last) ==
    IF i > Len(nodes) THEN Ok(numbers)
    ELSE IF is_normal(nodes[i]) THEN TrimLoop(nodes, i + 1, numbers, last)
    ELSE IF Len(numbers) = 0 THEN Raise("IndexError", <<>>)
    ELSE IF numbers[Len(numbers)] = last
    THEN TrimLoop(nodes, i + 1, SubSeq(numbers, 1, Len(numbers) - 1), last - 1)
    ELSE TrimLoop(nodes, i + 1, numbers, last)

SeenLoop_keep(nodes, i, txt, n) == Ok(nodes)

\* the loop of Volume.populate over the sorted chapters that keeps the labels
\* of the numberless ones apart; txt is format(self) of the volume, the only
\* key the dictionary `seen` ever gets, and n its value (0: not yet seen)
RECURSIVE SeenLoop(_, _, _, _)
SeenLoop(nodes, i, txt, n) ==
    IF i > Len(nodes) THEN Ok(nodes)
    ELSE IF ~IsNone(nodes[i].number) THEN SeenLoop(nodes, i + 1, txt, n)
    ELSE IF ~txt.ok THEN Raise("ValueError", <<>>)
    ELSE IF n = 0 THEN SeenLoop(nodes, i + 1, txt, 1)
    ELSE IF IsNone(nodes[i].extra) THEN Raise("TypeError", <<>>)
    ELSE SeenLoop(
            [nodes EXCEPT ![i].extra = Some(Get(@) \o <<" ">> \o IntStr(n + 1))],
            i + 1, txt, n + 1)

RECURSIVE MaxInt(_, _)
MaxInt(nodes, i) ==
    IF i = Len(nodes) THEN NodeInt(nodes[i])
    ELSE Max(NodeInt(nodes[i]), MaxInt(nodes, i + 1))

VolumeLast_count(vol) == Len(vol.nodes)

\* Volume.last
VolumeLast(vol) == IF Len(vol.nodes) > 0 THEN MaxInt(vol.nodes, 1) ELSE 0

\* Volume.populate(last, opts) for the volume vol whose directory lists
\* `chapters`; up is parent.spurious() of the volume, vo and vw the option
\* group and the width of the volume level (read by format(self)).
\* Done([vol, next, numbers]) with next the value returned and numbers the
\* list handed to the chapters as it was created, or the exception, with the
\* volume as the exception leaves it.
populate(vol, up, last, o, chapters, vo, vw) ==
    LET first == IF IsNone(last) THEN o.first ELSE Get(last) IN
    IF Len(chapters) = 0
    THEN Done([vol |-> vol, next |-> Some(first), numbers |-> <<>>],
              <<[msg |-> "Empty folder", of |-> vol.name, data |-> <<>>]>>)
    ELSE
    LET numbers == [k \in 1..Len(chapters) |-> first + k - 1]
        top == numbers[Len(numbers)]
    IN
    With(BuildNodes(chapters, 1, Some(numbers), Some(spurious(vol, up)), o, <<>>, <<>>),
         LAMBDA built :
    IF ~built.ok THEN [built EXCEPT !.val = vol]
    ELSE
    With(TrimLoop(built.val.nodes, 1, Get(built.val.expected), top), LAMBDA trimmed :
    IF ~trimmed.ok THEN FailAt(trimmed.err, [vol EXCEPT !.nodes = built.val.nodes], built.log)
    ELSE
    With(IF Len(trimmed.val) > 0
         THEN Append(built.log,
                [msg |-> "Volume Missing", of |-> vol.name, data |-> trimmed.val])
         ELSE built.log, LAMBDA lg :
    With(ListSort(NodeLt, built.val.nodes), LAMBDA sorted :
    With(SeenLoop(sorted, 1, Format(vol, vo, wide(vo, vw), None), 0), LAMBDA seen :
    IF ~seen.ok THEN FailAt(seen.err, [vol EXCEPT !.nodes = sorted], lg)
    ELSE
    With([vol EXCEPT !.nodes = seen.val], LAMBDA full :
    Done([vol |-> full,
          next |-> IF o.flat THEN None ELSE Some(VolumeLast(full) + 1),
          numbers |-> numbers], lg)))))))

\* UNumber.whole setter
UNumberSetWhole(u, n) == [u EXCEPT !.whole = n]

\* Node.force(whole=n) on a node that has a number
force(node, n) == [node EXCEPT !.number = Some(UNumberSetWhole(Get(@), n))]

RECURSIVE RenumberLoop_every(_, _, _)
RenumberLoop_every(nodes, i, n) ==
    IF i > Len(nodes) THEN <<nodes, n>>
    ELSE IF skip(nodes[i]) THEN RenumberLoop_every(nodes, i + 1, n)
    ELSE RenumberLoop_every([nodes EXCEPT ![i] = force(@, n + 1)], i + 1, n + 1)

\* the loop of Volume.renumber: <<chapters, n>>
RECURSIVE RenumberLoop(_, _, _)
RenumberLoop(nodes, i, n) ==
    IF i > Len(nodes) THEN <<nodes, n>>
    ELSE IF skip(nodes[i]) THEN RenumberLoop(nodes, i + 1, n)
    ELSE LET m == IF is_normal(nodes[i]) THEN n + 1 ELSE n IN
         RenumberLoop([nodes EXCEPT ![i] = force(@, m)], i + 1, m)

\* Volume.renumber(n0): <<volume, number of its last chapter>>
VolumeRenumber(vol, n0) ==
    With(RenumberLoop(vol.nodes, 1, n0), LAMBDA r : <<[vol EXCEPT !.nodes = r[1]], r[2]>>)

-----------------------------------------------------------------------------
(* The directory tree.  An entry is [path, id]: the path below the parent  *)
(* of the root directory, as a sequence of names, and the identity of the  *)
(* directory (what samefile compares).                                     *)

IsPrefix(p, q) == Len(p) <= Len(q) /\ SubSeq(q, 1, Len(p)) = p

Exists(d, path) == \E e \in d : e.path = path

\* Base._listdir with the pattern '*': the sorted names of the directories
\* in `path`; the parent of the root always is a directory
listdir(d, path) ==
    IF Len(path) > 0 /\ ~Exists(d, path) THEN <<>>
    ELSE SortedNames({e.path[Len(path) + 1] :
                        e \in {x \in d : Len(x.path) = Len(path) + 1 /\ IsPrefix(path, x.path)}})

-----------------------------------------------------------------------------
(* Series: nestable.py *)

\* Series.path
SeriesPath(o) == IF o.single THEN <<>> ELSE <<o.root>>

RECURSIVE PopulateLoop_any(_, _, _, _, _, _, _, _, _)
PopulateLoop_any(children, i, nxt, ch_wide, acc, lg, o, d, sw) ==
    IF i > Len(children) THEN Done([nodes |-> acc, ch_wide |-> ch_wide], lg)
    ELSE LET vol == children[i] IN
         With(populate(vol, Some(BaseSpurious(sw.hoaxes)), nxt, o.chapter,
                       listdir(d, <<o.root, vol.name>>), o.volume, sw.w1), LAMBDA r :
         IF ~r.ok
         THEN PopulateLoop_any(children, i + 1, nxt, ch_wide, acc,
                  lg \o r.log \o <<[msg |-> "Ignore", of |-> vol.name, data |-> <<>>]>>,
                  o, d, sw)
         ELSE PopulateLoop_any(children, i + 1, r.val.next,
                  Max(ch_wide, Len(IntStr(VolumeLast(r.val.vol)))),
                  Append(acc, r.val.vol), lg \o r.log, o, d, sw))

\* the loop of Series._populate_multi over the sorted volumes (sw holds the
\* hoaxes of the Series and its width for the volume level):
\* Done([nodes, ch_wide]) or the exception that is not a ValueError
RECURSIVE PopulateLoop(_, _, _, _, _, _, _, _, _)
PopulateLoop(children, i, nxt, ch_wide, acc, lg, o, d, sw) ==
    IF i > Len(children) THEN Done([nodes |-> acc, ch_wide |-> ch_wide], lg)
    ELSE LET vol == children[i] IN
         With(populate(vol, Some(BaseSpurious(sw.hoaxes)), nxt, o.chapter,
                       listdir(d, <<o.root, vol.name>>), o.volume, sw.w1), LAMBDA r :
         IF ~r.ok /\ r.err = "ValueError"
         THEN PopulateLoop(children, i + 1, nxt, ch_wide, acc,
                  lg \o r.log \o <<[msg |-> "Ignore", of |-> vol.name, data |-> <<>>]>>,
                  o, d, sw)
         ELSE IF ~r.ok THEN Fail(r.err, r.name, lg \o r.log)
         ELSE PopulateLoop(children, i + 1, r.val.next,
                  Max(ch_wide, Len(IntStr(VolumeLast(r.val.vol)))),
                  Append(acc, r.val.vol), lg \o r.log, o, d, sw))

\* Series._populate_multi: Done([nodes, wides, opt]) or the exception
populate_multi(o, d, hoaxes) ==
    LET names == listdir(d, SeriesPath(o)) IN
    IF Len(names) = 0 THEN Fail("IndexError", <<>>, <<>>)
    ELSE
    LET expected == [x \in 1..Len(names) |-> o.volume.first + x - 1]
        w1 == Max(2, Len(IntStr(expected[Len(expected)])))
    IN
    With(BuildNodes(names, 1, Some(expected), Some(BaseSpurious(hoaxes)),
                    o.volume, <<>>, <<>>), LAMBDA built :
    IF ~built.ok THEN built
    ELSE
    With(ListSort(NodeLt, built.val.nodes), LAMBDA children :
    IF o.volume.flat
    THEN Done([nodes |-> children, wides |-> <<w1, 0>>, opt |-> o], built.log)
    ELSE
    With(PopulateLoop(children, 1, None, 0, <<>>, built.log, o, d,
                      [hoaxes |-> hoaxes, w1 |-> w1]), LAMBDA r :
    IF ~r.ok THEN r
    ELSE Done([nodes |-> r.val.nodes, wides |-> <<w1, Max(2, r.val.ch_wide)>>, opt |-> o],
              IF Len(r.val.nodes) # Len(children)
              THEN Append(r.log, [msg |-> "Missing Volumes", of |-> o.root,
                                  data |-> Get(built.val.expected)])
              ELSE r.log))))

populate_single_multi(o, d, hoaxes) == populate_multi(o, d, hoaxes)

\* Series._populate_single: the one volume is the root directory itself
populate_single(o, d, hoaxes) ==
    LET o2 == [o EXCEPT !.volume.bonus = None, !.volume.special = None]
        names == listdir(d, SeriesPath(o))
        vname == IF Len(names) # 1 THEN o.root ELSE names[1]
    IN
    With(parse_number(vname, None, Some(BaseSpurious(hoaxes)), o2.volume), LAMBDA built :
    IF ~built.ok THEN Fail(built.err, built.name, <<>>)
    ELSE
    LET vol == built.val.node IN
    IF o2.volume.flat THEN Done([nodes |-> <<vol>>, wides |-> <<2, 0>>, opt |-> o2], <<>>)
    ELSE
    With(populate(vol, Some(BaseSpurious(hoaxes)), None, o2.chapter,
                  listdir(d, <<vname>>), o2.volume, 2), LAMBDA r :
    IF ~r.ok /\ r.err = "ValueError"
    THEN Done([nodes |-> <<r.val>>, wides |-> <<2, Max(2, Len(IntStr(VolumeLast(r.val))))>>,
               opt |-> o2],
              r.log \o <<[msg |-> "Ignore", of |-> vol.name, data |-> <<>>]>>)
    ELSE IF ~r.ok THEN Fail(r.err, r.name, r.log)
    ELSE Done([nodes |-> <<r.val.vol>>,
               wides |-> <<2, Max(2, Len(IntStr(VolumeLast(r.val.vol))))>>, opt |-> o2],
              r.log)))

\* the loop of Series.renumber
RECURSIVE SeriesRenumberLoop(_, _, _, _)
SeriesRenumberLoop(nodes, i, n, flat) ==
    IF i > Len(nodes) THEN nodes
    ELSE With(VolumeRenumber(nodes[i], n), LAMBDA r :
         SeriesRenumberLoop([nodes EXCEPT ![i] = r[1]], i + 1, IF flat THEN n ELSE r[2], flat))

\* Series.renumber(flat)
renumber(nodes, flat) == SeriesRenumberLoop(nodes, 1, 0, flat)

\* Series.__init__(opts) on the directory tree d:
\* Done([series, opt]) or the exception that leaves it
SeriesInit(o, d) ==
    With(extract_numbers(o.root, FALSE).val \o [i \in 1..Len(o.hoax) |-> PyInt(o.hoax[i])],
         LAMBDA hoaxes :
    With(IF o.single THEN populate_single(o, d, hoaxes) ELSE populate_multi(o, d, hoaxes),
         LAMBDA r :
    IF ~r.ok THEN r
    ELSE Done([series |-> [name |-> o.root, hoaxes |-> hoaxes, virtual |-> o.single,
                           wides |-> r.val.wides,
                           nodes |-> IF o.renumber # "asis"
                                     THEN renumber(r.val.nodes, o.renumber = "flat")
                                     ELSE r.val.nodes],
               opt |-> r.val.opt],
              r.log)))

-----------------------------------------------------------------------------
(* Transform: the rename plan (nestable.py, transform.py) *)

\* Transform(old, new, nested)
Transform(old, new, nested) == [old |-> old, new |-> new, nested |-> nested]

\* Node.transform of a chapter of the volume vol
ChapterTransform(ch, vol, s, o) ==
    With(Format(ch, o.chapter, wide(o.chapter, s.wides[2]),
                Some([number |-> vol.number, o |-> o.volume,
                      w |-> wide(o.volume, s.wides[1])])), LAMBDA f :
         IF f.ok THEN Ok(Transform(ch.name, Some(f.val), <<>>)) ELSE f)

\* Volume.transform
VolumeTransform(vol, s, o) ==
    With([i \in 1..Len(vol.nodes) |-> ChapterTransform(vol.nodes[i], vol, s, o)], LAMBDA nest :
    With(Format(vol, o.volume, wide(o.volume, s.wides[1]), None), LAMBDA f :
       IF (\E i \in 1..Len(nest) : ~nest[i].ok) \/ ~f.ok THEN Raise("ValueError", <<>>)
       ELSE Ok(Transform(vol.name, Some(f.val), [i \in 1..Len(nest) |-> nest[i].val]))))

SeriesTransform_rooted(s, o) ==
    With([i \in 1..Len(s.nodes) |-> VolumeTransform(s.nodes[i], s, o)], LAMBDA nest :
    IF \E i \in 1..Len(nest) : ~nest[i].ok THEN Raise("ValueError", <<>>)
    ELSE Ok(Transform(s.name, None, [i \in 1..Len(nest) |-> nest[i].val])))

\* Series.transform
SeriesTransform(s, o) ==
    With([i \in 1..Len(s.nodes) |-> VolumeTransform(s.nodes[i], s, o)], LAMBDA nest :
    IF \E i \in 1..Len(nest) : ~nest[i].ok THEN Raise("ValueError", <<>>)
    ELSE IF s.virtual
    THEN IF Len(nest) # 1 THEN Raise("ValueError", <<>>) ELSE Ok(nest[1].val)
    ELSE Ok(Transform(s.name, None, [i \in 1..Len(nest) |-> nest[i].val])))

RECURSIVE RunOrder_first(_, _)
RunOrder_first(t, path) ==
    <<[old |-> Append(path, t.old),
       new |-> IF IsNone(t.new) THEN None ELSE Some(Append(path, Get(t.new)))]>>
    \o Concat([i \in 1..Len(t.nested) |-> RunOrder_first(t.nested[i], Append(path, t.old))])

\* The order in which Transform.run reaches the entries of a plan:
\* run(dry, path) first runs every nested entry with the old path of this
\* one as base, then handles the entry itself.  Each step is [old, new]: the
\* source path, and the target path or None for the root marker.
RECURSIVE RunOrder(_, _)
RunOrder(t, path) ==
    Concat([i \in 1..Len(t.nested) |-> RunOrder(t.nested[i], Append(path, t.old))])
    \o <<[old |-> Append(path, t.old),
          new |-> IF IsNone(t.new) THEN None ELSE Some(Append(path, Get(t.new)))]>>

-----------------------------------------------------------------------------
(* Options: options.py.  opt also carries the one fact of the process      *)
(* environment the program reads: whether the working directory, on which  *)
(* Transform.run bases its paths, is the parent of the root directory.     *)

DefaultTemplate == <<"%", "l", "%", "_", "%", "t", "%", "u", " ", "%", "p", "%", "n", "%", "s">>

\* OptGroup('Volume', 'vol ')
DefaultVolume(label) ==
    [label |-> label, prefix |-> <<"v", "o", "l", " ">>, roman |-> FALSE, first |-> 1, flat |-> FALSE,
     template |-> DefaultTemplate, upper |-> None, wide |-> -1, force |-> FALSE,
     special |-> Some(<<" ", "S", "p", "e", "c", "i", "a", "l">>), bonus |-> Some(<<"B", "o", "n", "u", "s">>), normalize |-> FALSE]

\* OptGroup('Chapter', 'c', upper='v', special=' oMake')
DefaultChapter(label) ==
    [label |-> label, prefix |-> <<"c">>, roman |-> FALSE, first |-> 1, flat |-> FALSE,
     template |-> DefaultTemplate, upper |-> Some(<<"v">>), wide |-> -1, force |-> FALSE,
     special |-> Some(<<" ", "o", "M", "a", "k", "e">>), bonus |-> Some(<<"B", "o", "n", "u", "s">>), normalize |-> FALSE]

\* Options.__init__ for the command line `name root`
DefaultOptions(name, root) ==
    [name |-> name, root |-> root, action |-> "WorkMode.REPORT", single |-> FALSE,
     hoax |-> <<>>, renumber |-> "asis", cwd |-> <<>>,
     volume |-> DefaultVolume(name), chapter |-> DefaultChapter(name)]

-----------------------------------------------------------------------------
(* The program: Main.__init__, Main.exec, Transform.__call__, Transform.run *)

\* Main.__init__, first half: self.target = Series(self.opt)
Construct ==
    /\ pc = "start"
    /\ LET r == SeriesInit(opt, disk) IN
       /\ log' = log \o r.log
       /\ IF r.ok
          THEN /\ series' = Some(r.val.series)
               /\ opt' = r.val.opt
               /\ pc' = "built"
               /\ exc' = exc
          ELSE /\ exc' = Some([err |-> r.err, name |-> r.name])
               /\ pc' = "crashed"
               /\ UNCHANGED <<series, opt>>
    /\ UNCHANGED <<disk, tree, moves, ip, mode, status, arg, ret>>

\* Main.__init__, second half: self.tree = self.target.transform()
MakePlan ==
    /\ pc = "built"
    /\ LET t == SeriesTransform(Get(series), opt) IN
       IF t.ok
       THEN tree' = Some(t.val) /\ pc' = "planned" /\ exc' = exc
       ELSE tree' = tree /\ pc' = "crashed"
            /\ exc' = Some([err |-> "ValueError", name |-> <<>>])
    /\ UNCHANGED <<opt, disk, series, log, moves, ip, mode, status, arg, ret>>

\* Transform._two_cols: the lines of the report, as pairs of old and new name
RECURSIVE two_cols(_)
two_cols(t) ==
    <<[old |-> t.old, new |-> IF IsNone(t.new) THEN t.old ELSE Get(t.new)]>>
    \o Concat([i \in 1..Len(t.nested) |-> two_cols(t.nested[i])])

\* what Main.exec does for the value of opt.action: WorkMode members never
\* equal the strings it compares with
ExecDispatch(action) ==
    IF action = "report" THEN "pretty"
    ELSE IF action = "dryrun" THEN "dry"
    ELSE IF action = "enable" THEN "run"
    ELSE "RuntimeError"

CallDispatch_run(action) == "run"

\* what Transform.__call__ does for its argument
CallDispatch(action) ==
    IF action = "WorkMode.REPORT" THEN "pretty"
    ELSE IF action = "WorkMode.DRY_RUN" THEN "dry"
    ELSE IF action = "WorkMode.ENABLE" THEN "run"
    ELSE "RuntimeError"

\* the effect common to both entry points, `via` naming the one taken
Enter(what, via) ==
    /\ pc = "planned"
    /\ mode' = [what |-> what, via |-> via]
    /\ IF what = "pretty"
       THEN /\ log' = Append(log, [msg |-> "report", of |-> Get(tree).old,
                                   data |-> two_cols(Get(tree))])
            /\ pc' = "done"
            /\ status' = IF via = "exec" THEN Some(0) ELSE status
            /\ UNCHANGED <<ip, exc>>
       ELSE IF what = "RuntimeError"
       THEN /\ pc' = "crashed"
            /\ exc' = Some([err |-> "RuntimeError", name |-> <<>>])
            /\ UNCHANGED <<log, ip, status>>
       ELSE /\ pc' = "run"
            /\ ip' = 1
            /\ UNCHANGED <<log, exc, status>>
    /\ UNCHANGED <<opt, disk, series, tree, moves, arg, ret>>

\* Main.exec
MainExec == Enter(ExecDispatch(opt.action), "exec")

\* Transform.__call__(action) on the plan, by a caller holding opt.action
TransformCall == Enter(CallDispatch(opt.action), "call")

IsEmptyDir(d, path) == ~\E e \in d : IsPrefix(path, e.path) /\ e.path # path

Entry(d, path) == CHOOSE e \in d : e.path = path

\* os.replace(old, new) on a tree that holds old
Replace(d, old, new) ==
    {IF IsPrefix(old, e.path)
     THEN [e EXCEPT !.path = new \o SubSeq(e.path, Len(old) + 1, Len(e.path))]
     ELSE e : e \in {x \in d : x.path # new}}

\* Transform.run, the part after the nested entries: the step for the entry
\* the traversal has reached
RunStep ==
    /\ pc = "run"
    /\ LET order == RunOrder(Get(tree), opt.cwd)
           e == order[ip]
           last == ip = Len(order)
           finish == /\ pc' = IF last THEN "done" ELSE "run"
                     /\ ip' = ip + 1
                     /\ status' = IF last /\ mode.via = "exec" THEN Some(0) ELSE status
                     /\ exc' = exc
       IN
       IF IsNone(e.new) THEN finish /\ UNCHANGED <<disk, moves>>
       ELSE
       LET old == e.old
           new == Get(e.new)
           is_same == /\ Exists(disk, new) /\ Exists(disk, old)
                      /\ Entry(disk, new).id = Entry(disk, old).id
       IN
       IF is_same
       THEN finish /\ disk' = disk
            /\ moves' = Append(moves, [old |-> old, new |-> new, kind |-> "same"])
       ELSE IF mode.what = "dry"
       THEN finish /\ disk' = disk
            /\ moves' = Append(moves, [old |-> old, new |-> new, kind |-> "dry"])
       ELSE IF ~Exists(disk, old)
       THEN /\ pc' = "crashed"
            /\ exc' = Some([err |-> "FileNotFoundError", name |-> <<>>])
            /\ moves' = Append(moves, [old |-> old, new |-> new, kind |-> "failed"])
            /\ UNCHANGED <<disk, ip, status>>
       ELSE IF Exists(disk, new) /\ (~IsEmptyDir(disk, new) \/ Entry(disk, new).files)
       THEN /\ pc' = "crashed"
            /\ exc' = Some([err |-> "OSError", name |-> <<>>])
            /\ moves' = Append(moves, [old |-> old, new |-> new, kind |-> "failed"])
            /\ UNCHANGED <<disk, ip, status>>
       ELSE finish /\ disk' = Replace(disk, old, new)
            /\ moves' = Append(moves, [old |-> old, new |-> new, kind |-> "mv"])
    /\ UNCHANGED <<opt, series, tree, log, mode, arg, ret>>

Next == Construct \/ MakePlan \/ MainExec \/ TransformCall \/ RunStep

-----------------------------------------------------------------------------
(* Inputs: directory trees and command lines *)

\* the tree of a root directory holding the volume directories DOMAIN vols,
\* vols[v] being the set of chapter directories of v; a directory is
\* identified by the path it has at the start, and the chapter directories
\* hold files (pages) when `pages` is set
MkDisk(root, vols, pages) ==
    {[path |-> <<root>>, id |-> <<root>>, files |-> FALSE]}
    \cup {[path |-> <<root, v>>, id |-> <<root, v>>, files |-> FALSE] : v \in DOMAIN vols}
    \cup UNION {{[path |-> <<root, v, c>>, id |-> <<root, v, c>>, files |-> pages] :
                    c \in vols[v]} : v \in DOMAIN vols}

\* the tree of a root directory that is itself the one volume
MkSingleDisk(root, chapters, pages) ==
    {[path |-> <<root>>, id |-> <<root>>, files |-> FALSE]}
    \cup {[path |-> <<root, c>>, id |-> <<root, c>>, files |-> pages] : c \in chapters}

Sp == <<" ">>

\* names in the style of tests/reference.py: every name repeats the title,
\* a chapter name repeats the token of its volume
VolName(title, vt) == title \o Sp \o vt
ChName(title, vt, ct) == title \o Sp \o vt \o Sp \o ct

\* bounds of the generic trees
MaxVol == 2
MaxCh == 2

VolTokens == {<<"v", "0", "1">>, <<"v", "0", "2">>, <<"e", "x", "t", "r", "a">>}
ChTokens == {<<"c", "0", "1">>, <<"c", "0", "2">>, <<"c", "0", "1", ".", "5">>, <<"o", "M", "a", "k", "e">>}

SubsetsUpTo(S, n) == {x \in SUBSET S : Cardinality(x) <= n}

\* the generic trees over the volume tokens VT and the chapter tokens CT:
\* one to MaxVol volumes, each with up to MaxCh chapters
Layouts(VT, CT) ==
    UNION {[V -> SubsetsUpTo(CT, MaxCh)] :
              V \in {x \in SubsetsUpTo(VT, MaxVol) : x # {}}}

LayoutDisk(title, lay, pages) ==
    MkDisk(title,
           [v \in {VolName(title, vt) : vt \in DOMAIN lay} |->
               LET vt == CHOOSE t \in DOMAIN lay : VolName(title, t) = v
               IN {ChName(title, vt, ct) : ct \in lay[vt]}],
           pages)

TitlePlain == <<"T">>
TitleNum == <<"T", " ", "1">>
Label == <<"S">>

-----------------------------------------------------------------------------
(* The reference trees of the tests: tests/reference.py *)

RInt(n) == [k |-> "int", n |-> n, d |-> 0, s |-> <<>>]
RFloat(n, d) == [k |-> "float", n |-> n, d |-> d, s |-> <<>>]
RStr(s) == [k |-> "str", n |-> 0, d |-> 0, s |-> s]
RInts(a, b) == [i \in 1..(b - a + 1) |-> RInt(a + i - 1)]

\* Reference._Layout
RefNominal ==
    [volumes |-> <<Some(1), Some(2), Some(3)>>,
     chapters |-> <<RInts(1, 4),
                    RInts(5, 7) \o <<RFloat(7, 2)>> \o RInts(8, 9),
                    RInts(10, 13) \o <<RStr(<<"o", "M", "a", "k", "e">>)>> >>,
     labels |-> <<Some(<<"n", "o", "m", "i", "n", "a", "l">>), <<"N", "o", "m">>, <<"N", "o", "m">>>>]
RefNum1 ==
    [volumes |-> <<Some(1), Some(2), Some(3)>>,
     chapters |-> <<RInts(1, 3), RInts(4, 8), RInts(9, 13)>>,
     labels |-> <<Some(<<"N", "u", "m", " ", "1", " ", "i", "n", " ", "t", "i", "t", "l", "e">>), <<"N", "u", "m", " ", "1", " ", "i", "n", " ", "t", "i", "t", "l", "e">>, <<"N", "u", "m", " ", "1", " ", "i", "n", " ", "t", "i", "t", "l", "e">>>>]
RefMiss ==
    [volumes |-> <<Some(2), Some(3)>>,
     chapters |-> <<RInts(4, 6), RInts(7, 10)>>,
     labels |-> <<Some(<<"M", "i", "s", "s", " ", "v", "o", "l", " ", "1">>), <<"M", "i", "s", "s", " ", "V", "o", "l", " ", "1">>, <<"M", "i", "s", "s", " ", "v", "o", "l", " ", "1">>>>]
RefReset ==
    [volumes |-> <<Some(1), Some(2), Some(3)>>,
     chapters |-> <<RInts(1, 4), RInts(1, 3), RInts(1, 5)>>,
     labels |-> <<Some(<<"R", "e", "s", "e", "t", " ", "C", "o", "u", "n", "t">>), <<"R", "e", "s", "e", "t">>, <<"R", "e", "s", "e", "t">>>>]
RefSingle ==
    [volumes |-> <<None>>,
     chapters |-> <<RInts(1, 3)>>,
     labels |-> <<None, <<"S", "i", "n", "g", "l", "e", " ", "V", "o", "l">>, <<"S", "i", "n", "g", "l", "e">>>>]

\* LevelFmt(wide, tag): tag[1] names the level itself, tag[2] the level in
\* the names of its children
LevelFmt(w, tag) == [wide |-> w, tag |-> tag]
OldVol == LevelFmt(2, <<<<"v">>, <<"v">>>>)
OldCh == LevelFmt(2, <<<<"c">>>>)

\* format(c, '0{w}d') and format(c, '0{w+2}.1f') of Reference.__call__, and
\* the text that stands for a chapter without a number
RefNumber(c, w, extra) ==
    IF c.k = "int" THEN ZeroPad(IntStr(c.n), w)
    ELSE IF c.k = "float" THEN ZeroPad(IntStr(c.n) \o <<".">> \o IntStr(c.d), w + 2)
    ELSE extra

\* the name Reference.__call__ gives a chapter
RefChapterName(label, v, c, vf, cf, extra) ==
    label
    \o (IF IsNone(v) THEN <<>> ELSE Sp \o vf.tag[2] \o ZeroPad(IntStr(Get(v)), vf.wide))
    \o Sp \o (IF c.k = "str" THEN <<>> ELSE cf.tag[1]) \o RefNumber(c, cf.wide, extra)

\* the name Reference.__call__ gives a volume (the old one always 2 wide)
RefVolumeName(label, v, vf) ==
    IF IsNone(v) THEN label ELSE label \o Sp \o vf.tag[1] \o ZeroPad(IntStr(Get(v)), vf.wide)

\* Reference.__call__(name, vfmt, cfmt, extra)
Reference(ref, name, vfmt, cfmt, extra) ==
    LET res == [i \in 1..Len(ref.volumes) |->
                  Transform(RefVolumeName(ref.labels[2], ref.volumes[i], OldVol),
                            Some(RefVolumeName(name, ref.volumes[i], vfmt)),
                            [j \in 1..Len(ref.chapters[i]) |->
                               LET c == ref.chapters[i][j] IN
                               Transform(RefChapterName(ref.labels[3], ref.volumes[i], c,
                                                        OldVol, OldCh, c.s),
                                         Some(RefChapterName(name, ref.volumes[i], c,
                                                             vfmt, cfmt, extra)),
                                         <<>>)])]
    IN IF IsNone(ref.labels[1]) THEN res[1] ELSE Transform(Get(ref.labels[1]), None, res)

\* the directories a plan expects to find: the tree the test runs on
RECURSIVE PlanDirs(_, _)
PlanDirs(t, path) ==
    {[path |-> Append(path, t.old), id |-> Append(path, t.old), files |-> t.nested = <<>>]}
    \cup UNION {PlanDirs(t.nested[i], Append(path, t.old)) : i \in 1..Len(t.nested)}

RefDisk(ref) == PlanDirs(Reference(ref, <<>>, OldVol, OldCh, <<>>), <<>>)

\* the root directory a reference tree is run on
RefRoot(ref) == IF IsNone(ref.labels[1]) THEN ref.labels[2] ELSE Get(ref.labels[1])

-----------------------------------------------------------------------------
(* Construction of the plan: Main.__init__ on a choice of trees *)

Start(o, d) ==
    /\ pc = "start" /\ opt = o /\ disk = d
    /\ series = None /\ tree = None /\ log = <<>> /\ moves = <<>> /\ ip = 0
    /\ mode = <<>> /\ exc = None /\ status = None /\ arg = <<>> /\ ret = <<>>

\* the command lines of tests/test_modes.py
TestNominal == DefaultOptions(<<"N", "o", "r", "m", "a", "l", " ", "S", "e", "r", "i", "e", "s">>, RefRoot(RefNominal))
TestNum1 == DefaultOptions(<<"N", "u", "m", "b", "e", "r", " ", "1">>, RefRoot(RefNum1))
TestMiss ==
    [DefaultOptions(<<"M", "i", "s", "s", " ", "F", "i", "r", "s", "t">>, RefRoot(RefMiss)) EXCEPT !.volume.first = 2, !.chapter.first = 4]
TestReset == [DefaultOptions(<<"S", "t", "a", "r", "t", " ", "A", "t", " ", "1">>, RefRoot(RefReset)) EXCEPT !.chapter.flat = TRUE]
TestSingle == [DefaultOptions(<<"J", "u", "s", "t", " ", "O", "n", "e">>, RefRoot(RefSingle)) EXCEPT !.single = TRUE]

InitBuild ==
    \/ \E lay \in Layouts(VolTokens, ChTokens) :
          Start(DefaultOptions(Label, TitlePlain), LayoutDisk(TitlePlain, lay, TRUE))
    \/ Start(TestNominal, RefDisk(RefNominal))
    \/ Start(TestNum1, RefDisk(RefNum1))
    \/ Start(TestMiss, RefDisk(RefMiss))
    \/ Start(DefaultOptions(<<"M", "i", "s", "s", " ", "F", "i", "r", "s", "t">>, RefRoot(RefMiss)), RefDisk(RefMiss))
    \/ Start(TestReset, RefDisk(RefReset))
    \/ Start(TestSingle, RefDisk(RefSingle))
    \/ \E title \in {TitlePlain, TitleNum}, chs \in SubsetsUpTo(ChTokens, MaxCh),
          beside \in SUBSET {[path |-> <<Label>>, id |-> <<Label>>, files |-> FALSE]} :
          Start([DefaultOptions(Label, title) EXCEPT !.single = TRUE],
                MkSingleDisk(title, {title \o Sp \o ct : ct \in chs}, TRUE) \cup beside)

NextBuild == Construct \/ MakePlan

SpecBuild == InitBuild /\ [][NextBuild]_vars

-----------------------------------------------------------------------------
(* Roman round trip: a library caller formats n and parses the text back *)

InitRoman ==
    /\ pc = "start"
    /\ arg \in 0..RomanLimit
    /\ ret = <<>>
    /\ opt = <<>> /\ disk = {} /\ series = <<>> /\ tree = <<>>
    /\ log = <<>> /\ moves = <<>> /\ ip = 0 /\ mode = <<>> /\ exc = <<>> /\ status = <<>>

\* f'{UNumber(n):r}'
CallToRoman ==
    /\ pc = "start"
    /\ ret' = <<UFormatRoman(UN(arg, None))>>
    /\ pc' = IF ret'[1].ok THEN "roman" ELSE "raised"
    /\ UNCHANGED <<progVars, arg>>

\* UNumber(r) on the text produced
CallParseRoman ==
    /\ pc = "roman"
    /\ ret' = Append(ret, UNumberInit(ret[1].val))
    /\ pc' = "parsed"
    /\ UNCHANGED <<progVars, arg>>

\* to_roman on the value parsed
CallReformat ==
    /\ pc = "parsed"
    /\ ret[2].ok
    /\ ret' = Append(ret, to_roman(ret[2].val.whole))
    /\ pc' = "done"
    /\ UNCHANGED <<progVars, arg>>

NextRoman == CallToRoman \/ CallParseRoman \/ CallReformat

SpecRoman == InitRoman /\ [][NextRoman]_vars

\* C10: for every n in 1..4999 parsing the canonical roman form of n gives back
\* a whole UNumber equal to n (equal to UNumber(n)), and formatting the parsed
\* value again gives back the same canonical string.
C10_RomanRoundTrip ==
    /\ (pc \in {"parsed", "done"} =>
          /\ ret[2].ok
          /\ UEq(ret[2].val, UN(arg, None))
          /\ from_roman(ret[1].val).ok
          /\ from_roman(ret[1].val).val = arg)
    /\ (pc = "done" => ret[3].ok /\ ret[3].val = ret[1].val)
    /\ (pc = "raised" <=> (ret # <<>> /\ arg \notin 1..(RomanLimit - 1)))

C10_Witness ==
    pc = "done" /\ arg = RomanLimit - 1
    /\ ret[1].val = <<"M","M","M","M","C","M","X","C","I","X">>

-----------------------------------------------------------------------------
(* Construction of one node: Node.__init__ under a parent and a pool *)

\* bound of the names: the number of tokens of a name
MaxTokens == 3

NodeTokens == {<<"1">>, <<"2">>, <<"1", ".", "0">>, <<"2", ".", "5">>, <<"x">>, <<"I", "I">>, <<"I", "M">>}

RECURSIVE JoinTokens(_)
JoinTokens(ts) == IF Len(ts) = 1 THEN ts[1] ELSE ts[1] \o Sp \o JoinTokens(Tail(ts))

NodeNames == UNION {{JoinTokens(ts) : ts \in [1..k -> NodeTokens]} : k \in 1..MaxTokens}

\* what the parent answers to spurious(): the Series gives its hoaxes (the
\* numbers of its name and the integers of --hoax) and no level number; a
\* Volume adds the other numbers of its name and its own level number
NodeParents ==
    [hoax : {<<>>, <<UN(1, None)>>, <<PyInt(2)>>, <<UN(1, Some(0)), UN(2, None)>>},
     top : {<<>>, <<PyInt(1)>>, <<PyInt(2)>>}]

NodePools == {None, Some(<<1, 2>>), Some(<<2, 3>>), Some(<<1, 2, 3>>)}

InitNode ==
    /\ pc = "start"
    /\ arg \in [name : NodeNames, expected : NodePools, up : NodeParents, roman : BOOLEAN]
    /\ ret = <<>>
    /\ opt = <<>> /\ disk = {} /\ series = None /\ tree = None /\ log = <<>>
    /\ moves = <<>> /\ ip = 0 /\ mode = <<>> /\ exc = None /\ status = None

\* Node(name, parent, option, expected)
NewNode ==
    /\ pc = "start"
    /\ LET r == parse_number(arg.name, arg.expected, Some(arg.up),
                             [DefaultChapter(Label) EXCEPT !.roman = arg.roman])
       IN /\ ret' = r
          /\ pc' = IF r.ok THEN "done" ELSE "raised"
    /\ UNCHANGED <<progVars, arg>>

NextNode == NewNode

SpecNode == InitNode /\ [][NextNode]_vars

\* the numbers of the name of the node under construction
ArgNumbers == extract_numbers(arg.name, arg.roman)

\* two numbers of the name are both in the pool; with `apart`, neither of
\* them equals a hoax or a level number the parent hands down
TwoInPool(apart) ==
    /\ ~IsNone(arg.expected)
    /\ ArgNumbers.ok
    /\ \E i, j \in 1..Len(ArgNumbers.val) :
          /\ i < j
          /\ InExpected(ArgNumbers.val[i], Get(arg.expected))
          /\ InExpected(ArgNumbers.val[j], Get(arg.expected))
          /\ apart => ~\E n \in {ArgNumbers.val[i], ArgNumbers.val[j]} :
                          PyIn(n, arg.up.hoax \o arg.up.top)

RaisedCannotChoose == pc = "raised" /\ ret.err = "CannotChooseError" /\ ret.name = arg.name

\* C2 as stated: a name with two numbers that are both in the pool raises
\* CannotChooseError with the name, whatever the parent and the pool.
C2_AnyParent == (pc # "start" /\ TwoInPool(FALSE)) => RaisedCannotChoose

\* C2: a name with two numbers that are both in the pool, neither of them
\* equal to a hoax or a level number of an ancestor, raises CannotChooseError
\* carrying the name of the node.
C2_CannotChoose == (pc # "start" /\ TwoInPool(TRUE)) => RaisedCannotChoose

C2_Witness ==
    /\ RaisedCannotChoose /\ TwoInPool(TRUE)
    /\ arg.up.top = <<PyInt(1)>> /\ arg.up.hoax # <<>>
    /\ Len(ArgNumbers.val) = 3

-----------------------------------------------------------------------------
(* A number in the title: the same tree with and without it *)

HoaxVolTokens == {<<"v", "0", "1">>, <<"v", "0", "2">>, <<"e", "x", "t", "r", "a">>}
HoaxChTokens == {<<"c", "0", "1">>, <<"o", "M", "a", "k", "e">>, <<"c", "0", "1", "-", "0", "2">>}

\* the tree of a layout under the title followed by the text h: every name
\* begins with the name of the root, as the names of tests/reference.py do;
\* h empty gives the tree without the number
HoaxRoot(h) == IF h = <<>> THEN TitlePlain ELSE TitlePlain \o Sp \o h

HoaxDisk(lay, h) == LayoutDisk(HoaxRoot(h), lay, TRUE)

\* arg holds the tree without the number
InitHoax ==
    \E lay \in Layouts(HoaxVolTokens, HoaxChTokens), h \in {<<"1">>, <<"2">>, <<"1", ".", "0">>},
       user \in {<<>>, <<2>>} :
       /\ pc = "start"
       /\ opt = [DefaultOptions(Label, HoaxRoot(h)) EXCEPT !.hoax = user]
       /\ disk = HoaxDisk(lay, h)
       /\ arg = [opt |-> [DefaultOptions(Label, HoaxRoot(<<>>)) EXCEPT !.hoax = user],
                 disk |-> HoaxDisk(lay, <<>>), lay |-> lay, h |-> h]
       /\ series = None /\ tree = None /\ log = <<>> /\ moves = <<>> /\ ip = 0
       /\ mode = <<>> /\ exc = None /\ status = None /\ ret = <<>>

\* Series(opts) on the tree without the number
ConstructTwin ==
    /\ pc \in {"built", "crashed"}
    /\ ret = <<>>
    /\ LET r == SeriesInit(arg.opt, arg.disk) IN
       ret' = IF r.ok THEN [ok |-> TRUE, series |-> r.val.series, err |-> ""]
              ELSE [ok |-> FALSE, series |-> <<>>, err |-> r.err]
    /\ UNCHANGED <<progVars, pc, arg>>

NextHoax == Construct \/ ConstructTwin

SpecHoax == InitHoax /\ [][NextHoax]_vars

\* the numbers and labels of two lists of nodes agree, position by position
RECURSIVE SameNodes(_, _)
SameNodes(a, b) ==
    /\ Len(a) = Len(b)
    /\ \A i \in 1..Len(a) :
          /\ a[i].number = b[i].number
          /\ a[i].extra = b[i].extra
          /\ SameNodes(a[i].nodes, b[i].nodes)

\* both runs are over and end alike: both fail, or both give the same
\* numbers and labels
SameAsTwin ==
    IF pc = "crashed" THEN ~ret.ok /\ ret.err = Get(exc).err
    ELSE ret.ok /\ SameNodes(Get(series).nodes, ret.series.nodes)

\* C3 as stated: when every name repeats the number h of the root name once,
\* numbers, labels and errors are those of the tree without h.
C3_AnyNames == ret # <<>> => SameAsTwin

\* how many numbers a token adds to a name
Numbers(token) == Len(extract_numbers(token, FALSE).val)

\* every volume name has one number after the root name; every chapter name
\* has the number of its volume and at most one number more
OneNumberEach ==
    \A vt \in DOMAIN arg.lay :
       /\ Numbers(vt) = 1
       /\ \A ct \in arg.lay[vt] : Numbers(ct) <= 1

\* C3: when the root name contains one number h, every volume and chapter
\* name begins with the root name, every volume name contains exactly one
\* number more and every chapter name the number of its volume and at most
\* one number more, then construction ends as it does on the same tree with
\* h absent from every name: the same volume and chapter numbers and labels,
\* and no error that the tree without h does not raise.
C3_HoaxRemoved == (ret # <<>> /\ OneNumberEach) => SameAsTwin

\* a run where a chapter's own number equals h and is the number it gets
C3_Witness ==
    /\ ret # <<>> /\ OneNumberEach /\ pc = "built" /\ arg.h = <<"1">>
    /\ \E i \in 1..Len(Get(series).nodes) :
          LET v == Get(series).nodes[i] IN
          /\ v.number = Some(UN(2, None))
          /\ \E j \in 1..Len(v.nodes) :
                /\ v.nodes[j].name = ChName(HoaxRoot(arg.h), <<"v", "0", "2">>, <<"c", "0", "1">>)
                /\ v.nodes[j].number = Some(UN(1, None))

-----------------------------------------------------------------------------
(* Renumbering: Series.__init__ with --renumber *)

RenVolTokens == {<<"v", "0", "1">>, <<"v", "0", "2">>}
RenChTokens == {<<"c", "0", "1">>, <<"c", "0", "2">>, <<"c", "0", "1", ".", "5">>, <<"c", "0", "3", ".", "2">>, <<"o", "M", "a", "k", "e">>}

\* the tree of three volumes with 4, 3 and 5 chapters, each volume counting
\* from 1 (Reference._Layout['reset']), read with and without --ch-flat
InitRenumber ==
    \E r \in {"flat", "continuous"} :
       \/ \E lay \in Layouts(RenVolTokens, RenChTokens) :
             Start([DefaultOptions(Label, TitlePlain) EXCEPT !.renumber = r],
                   LayoutDisk(TitlePlain, lay, TRUE))
       \/ \E o \in {TestReset, DefaultOptions(Label, RefRoot(RefReset))} :
             Start([o EXCEPT !.renumber = r], RefDisk(RefReset))

SpecRenumber == InitRenumber /\ [][NextBuild]_vars

\* the chapters of the volumes 1..i, in order, each with its volume
RECURSIVE ChaptersUpTo(_, _)
ChaptersUpTo(vols, i) ==
    IF i = 0 THEN <<>>
    ELSE ChaptersUpTo(vols, i - 1)
         \o [j \in 1..Len(vols[i].nodes) |-> [vol |-> i, node |-> vols[i].nodes[j]]]

\* how many of the first k entries of chs are normal chapters counted by the
\* counter that reaches volume v: all of them, or those of volume v only
NormalsIn(chs, k, v, flat) ==
    Cardinality({m \in 1..k : is_normal(chs[m].node) /\ (flat => chs[m].vol = v)})

\* the tree as it is built without the renumbering pass
AsIs == SeriesInit([opt EXCEPT !.renumber = "asis"], disk).val.series.nodes

-----------------------------------------------------------------------------
(* Properties of the construction of the plan *)

OnNominal == opt = TestNominal /\ disk = RefDisk(RefNominal)

\* the chapter node built for the reference chapter c
IsRefChapter(node, c) ==
    IF c.k = "int"
    THEN node.number = Some(UN(c.n, None)) /\ is_normal(node) /\ IsNone(node.extra)
    ELSE IF c.k = "float"
    THEN node.number = Some(UN(c.n, Some(c.d))) /\ ~is_normal(node) /\ IsNone(node.extra)
    ELSE IsNone(node.number) /\ node.extra = Some(<<"B", "o", "n", "u", "s">>)

\* C1: with the default configuration, on the three volumes 1,2,3 with the
\* chapters [1,2,3,4], [5,6,7,7.2,8,9] and [10,11,12,13, one without number],
\* construction succeeds; the volumes get the numbers 1,2,3 and no label,
\* every numbered chapter gets its own number and no label (7.2 stays the
\* non-normal 7.2 and takes no slot from 8 and 9), the last entry gets no
\* number and the label Bonus, and the plan is the one of the test: volumes
\* 01,02,03 and chapters 01..13, 07.2 and Bonus, in that order.
C1_Nominal ==
    OnNominal =>
       /\ pc # "crashed"
       /\ pc \in {"built", "planned"} =>
             LET vols == Get(series).nodes IN
             /\ Len(vols) = Len(RefNominal.volumes)
             /\ \A i \in 1..Len(vols) :
                   /\ vols[i].number = Some(UN(i, None))
                   /\ IsNone(vols[i].extra)
                   /\ Len(vols[i].nodes) = Len(RefNominal.chapters[i])
                   /\ \A j \in 1..Len(vols[i].nodes) :
                         IsRefChapter(vols[i].nodes[j], RefNominal.chapters[i][j])
       /\ pc = "planned" =>
             Get(tree) = Reference(RefNominal, opt.name, LevelFmt(2, <<<<"v", "o", "l", " ">>, <<"v">>>>),
                                   LevelFmt(2, <<<<"c">>>>), <<"B", "o", "n", "u", "s">>)

C1_Witness ==
    /\ OnNominal /\ pc = "planned"
    /\ Get(tree).nested[2].nested[4].new = Some(<<"N", "o", "r", "m", "a", "l", " ", "S", "e", "r", "i", "e", "s", " ", "v", "0", "2", " ", "c", "0", "7", ".", "2">>)
    /\ Get(tree).nested[3].nested[5].new = Some(<<"N", "o", "r", "m", "a", "l", " ", "S", "e", "r", "i", "e", "s", " ", "v", "0", "3", " ", "B", "o", "n", "u", "s">>)

\* the volume directories of the run, and the number each carries in its
\* name: the last one, after the numbers of the title
VolumeDirs == listdir(disk, SeriesPath(opt))

NameNumber(name) ==
    LET ns == extract_numbers(name, FALSE).val IN
    IF Len(ns) = 0 THEN None ELSE Some(ns[Len(ns)])

\* every volume directory carries a whole number, and these numbers are not
\* the range of that many values that starts at --vol-first
SkipsVolume ==
    /\ ~opt.single /\ ~opt.volume.flat /\ Len(VolumeDirs) > 0
    /\ \A i \in 1..Len(VolumeDirs) :
          /\ ~IsNone(NameNumber(VolumeDirs[i]))
          /\ UIsNormal(Get(NameNumber(VolumeDirs[i])))
    /\ {Get(NameNumber(VolumeDirs[i])).whole : i \in 1..Len(VolumeDirs)}
          # opt.volume.first..(opt.volume.first + Len(VolumeDirs) - 1)

\* C5: when the numbers of the volume directories skip a value of the
\* expected range, construction does not abort, the missing volume is
\* reported in the log, and the tree holds exactly the present volumes, each
\* with the number of its name and without a label.
C5_MissingVolume ==
    SkipsVolume =>
       /\ pc # "crashed"
       /\ pc \in {"built", "planned"} =>
             LET vols == Get(series).nodes IN
             /\ \E k \in 1..Len(log) : log[k].msg = "Missing Volumes"
             /\ Len(vols) = Len(VolumeDirs)
             /\ \A i \in 1..Len(vols) :
                   /\ \E j \in 1..Len(VolumeDirs) : vols[i].name = VolumeDirs[j]
                   /\ vols[i].number = NameNumber(vols[i].name)
                   /\ IsNone(vols[i].extra)

\* the text of a chapter name that the chapter itself contributes: prefix,
\* number and suffix, or the label of a chapter without number
OwnPart(ch, o, w) ==
    IF IsNone(ch.number) THEN (IF IsNone(ch.extra) THEN <<>> ELSE Get(ch.extra))
    ELSE o.prefix \o UFormatArabic(Get(ch.number), w)
         \o (IF IsNone(ch.extra) THEN <<>> ELSE Get(ch.extra))

\* C6: in single-volume mode the Series holds exactly one Volume and it has
\* no number; the plan is the Transform of that Volume (its old name the
\* directory, its new name the label: there is no entry for a Series root),
\* its direct children are the Transforms of the chapters, and a chapter is
\* renamed to the label, one blank and its own part, with nothing from the
\* parent in between.
C6_Single ==
    (opt.single /\ pc \in {"built", "planned"}) =>
       LET s == Get(series) IN
       /\ Len(s.nodes) = 1
       /\ IsNone(s.nodes[1].number)
       /\ pc = "planned" =>
             LET t == Get(tree)
                 vol == s.nodes[1]
             IN
             /\ t.old = vol.name
             /\ t.new = Some(opt.volume.label)
             /\ Len(t.nested) = Len(vol.nodes)
             /\ \A i \in 1..Len(vol.nodes) :
                   /\ t.nested[i].old = vol.nodes[i].name
                   /\ t.nested[i].nested = <<>>
                   /\ t.nested[i].new =
                         Some(RStrip(opt.chapter.label \o Sp
                                     \o OwnPart(vol.nodes[i], opt.chapter,
                                                wide(opt.chapter, s.wides[2]))))
             /\ (disk = RefDisk(RefSingle)) =>
                   t = Reference(RefSingle, opt.name, LevelFmt(2, <<<<"v", "o", "l", " ">>, <<"v">>>>),
                                 LevelFmt(2, <<<<"c">>>>), <<"B", "o", "n", "u", "s">>)

C6_Witness ==
    /\ opt.single /\ pc = "planned" /\ disk = RefDisk(RefSingle)
    /\ Get(tree).old = <<"S", "i", "n", "g", "l", "e", " ", "V", "o", "l">>
    /\ Len(Get(tree).nested) = 3
    /\ Get(tree).nested[3].new = Some(<<"J", "u", "s", "t", " ", "O", "n", "e", " ", "c", "0", "3">>)

-----------------------------------------------------------------------------
(* The whole run: Main.__init__ and then Main.exec, or Transform.__call__  *)
(* with the work mode of the options, on a choice of trees                 *)

WorkModes == {"WorkMode.REPORT", "WorkMode.DRY_RUN", "WorkMode.ENABLE"}

\* a working directory that is not the parent of the root directory
Elsewhere == <<<<"e">>>>

RunVolTokens == {<<"v", "0", "1">>, <<"e", "x", "t", "r", "a">>, <<"m", "o", "r", "e">>}
RunChTokens == {<<"c", "0", "1">>, <<"c", "0", "2">>, <<"c", "0", "1", "-", "0", "2">>}

\* three volumes without number, one chapter each
ThreeExtras ==
    [v \in {<<"e", "x", "t", "r", "a">>, <<"m", "o", "r", "e">>, <<"r", "e", "s", "t">>} |-> {<<"c", "0", "1">>}]

\* a directory beside the root, with the name the label gives the one volume
Beside(files) == [path |-> <<Label>>, id |-> <<Label>>, files |-> files]

\* the start of a run; arg keeps the directory tree the run starts on
StartRun(o, d) ==
    /\ pc = "start" /\ opt = o /\ disk = d
    /\ series = None /\ tree = None /\ log = <<>> /\ moves = <<>> /\ ip = 0
    /\ mode = <<>> /\ exc = None /\ status = None /\ arg = <<d>> /\ ret = <<>>

Init ==
    \E a \in WorkModes, cwd \in {<<>>, Elsewhere} :
       LET o == [DefaultOptions(Label, TitlePlain) EXCEPT !.action = a, !.cwd = cwd] IN
       \/ \E lay \in Layouts(RunVolTokens, RunChTokens) \cup {ThreeExtras} :
             StartRun(o, LayoutDisk(TitlePlain, lay, TRUE))
       \/ \E chs \in SubsetsUpTo(RunChTokens, MaxCh),
             beside \in {{}, {Beside(FALSE)}, {Beside(TRUE)}} :
             StartRun([o EXCEPT !.single = TRUE],
                      MkSingleDisk(TitlePlain, {TitlePlain \o Sp \o ct : ct \in chs}, TRUE)
                         \cup beside)

Spec == Init /\ [][Next]_vars

\* the directory tree the run started on
disk0 == arg[1]

IsProperPrefix(p, q) == IsPrefix(p, q) /\ p # q

\* the source paths of the entries of a plan that name a rename, each built
\* from the old names of the entries above it
RECURSIVE Sources(_, _)
Sources(t, path) ==
    (IF IsNone(t.new) THEN {} ELSE {Append(path, t.old)})
    \cup UNION {Sources(t.nested[i], Append(path, t.old)) : i \in 1..Len(t.nested)}

Running == pc \in {"run", "done", "crashed"} /\ mode # <<>> /\ mode.what \in {"dry", "run"}

\* C7: in Transform.run every source path is built from the old names of
\* the entries above it, the rename of every entry below an entry is
\* attempted before the entry's own, so that no entry above one has been
\* attempted when it is moved; hence with the working directory the plan
\* was made for no source is ever missing.
C7_ChildrenFirst ==
    Running =>
       LET src == Sources(Get(tree), opt.cwd) IN
       /\ \A k \in 1..Len(moves) :
             /\ moves[k].old \in src
             /\ \A p \in src :
                   IsProperPrefix(moves[k].old, p) => \E j \in 1..(k - 1) : moves[j].old = p
             /\ \A j \in 1..(k - 1) : ~IsPrefix(moves[j].old, moves[k].old)
       /\ (pc = "done") => {moves[k].old : k \in 1..Len(moves)} = src
       /\ (pc = "crashed" /\ opt.cwd = <<>>) => Get(exc).err # "FileNotFoundError"

C7_Witness ==
    /\ pc = "done" /\ mode.what = "run" /\ disk # disk0
    /\ \E k \in 1..Len(moves) :
          /\ moves[k].kind = "mv" /\ Len(moves[k].old) = 2
          /\ Cardinality({j \in 1..(k - 1) : moves[j].kind = "mv"
                                             /\ IsProperPrefix(moves[k].old, moves[j].old)}) = 2
    /\ \E k \in 1..Len(moves) : moves[k].kind = "mv" /\ ~IsProperPrefix(moves[1].old, moves[k].old)
                                /\ Len(moves[k].old) = 3

\* C8: with the work modes report and dry-run the directory tree is never
\* changed and no move is performed; a change of the tree or an attempted
\* move happens in enable mode only; a move that fails is the last one
\* attempted: its error ends the run, which sets no exit status.
C8_ModesFrame ==
    /\ opt.action \in {"WorkMode.REPORT", "WorkMode.DRY_RUN"} =>
          /\ disk = disk0
          /\ \A k \in 1..Len(moves) : moves[k].kind \in {"dry", "same"}
    /\ (disk # disk0 \/ \E k \in 1..Len(moves) : moves[k].kind \in {"mv", "failed"}) =>
          /\ opt.action = "WorkMode.ENABLE"
          /\ mode # <<>> /\ mode.what = "run"
    /\ \A k \in 1..Len(moves) :
          moves[k].kind = "failed" =>
             /\ k = Len(moves)
             /\ pc = "crashed"
             /\ exc # None /\ Get(exc).err \in {"FileNotFoundError", "OSError"}
             /\ status = None
    /\ (pc = "crashed" /\ mode # <<>> /\ mode.what = "run") =>
          /\ Len(moves) > 0 /\ moves[Len(moves)].kind = "failed"
          /\ Len(moves) = ip

C8_Witness ==
    /\ pc = "crashed" /\ opt.action = "WorkMode.ENABLE" /\ Get(exc).err = "OSError"
    /\ disk # disk0
    /\ \E k \in 1..(Len(moves) - 1) : moves[k].kind = "mv"
    /\ moves[Len(moves)].kind = "failed"
    /\ ip < Len(RunOrder(Get(tree), opt.cwd)) - 1

\* the tree holds a volume 1 whose two chapters are named c02 and c01-02:
\* both numbers of the second name are in the pool [1, 2] of the volume
Ambiguous ==
    /\ ~opt.single
    /\ listdir(disk0, <<TitlePlain, VolName(TitlePlain, <<"v", "0", "1">>)>>)
          = <<ChName(TitlePlain, <<"v", "0", "1">>, <<"c", "0", "1", "-", "0", "2">>),
              ChName(TitlePlain, <<"v", "0", "1">>, <<"c", "0", "2">>)>>

\* C9: when the inference of a node raises CannotChooseError the
\* construction fails as a whole: there is no Series, no plan, and no move
\* is made whatever the work mode; every move of a run is made when the
\* Series and the plan exist.
C9_CannotChoose ==
    /\ (Ambiguous /\ pc # "start") =>
          /\ pc = "crashed"
          /\ exc = Some([err |-> "CannotChooseError",
                         name |-> ChName(TitlePlain, <<"v", "0", "1">>, <<"c", "0", "1", "-", "0", "2">>)])
    /\ (exc # None /\ Get(exc).err = "CannotChooseError") =>
          /\ pc = "crashed"
          /\ series = None /\ tree = None
          /\ moves = <<>> /\ disk = disk0 /\ mode = <<>> /\ status = None
    /\ (moves # <<>> \/ disk # disk0) => (series # None /\ tree # None)

C9_Witness ==
    /\ Ambiguous /\ pc = "crashed" /\ opt.action = "WorkMode.ENABLE"
    /\ Get(exc).err = "CannotChooseError"
    /\ Len(listdir(disk0, <<TitlePlain>>)) = 2

-----------------------------------------------------------------------------
(* Comparison of two numbers: a library caller builds UNumber(a) and       *)
(* UNumber(b) and evaluates a == b, a < b and a > b.                       *)

NumberTexts ==
    {<<"0">>, <<"1">>, <<"2">>, <<"1", "0">>, <<"0", ".", "0">>, <<"1", ".", "0">>,
     <<"1", ".", "5">>, <<"1", ".", "1", "0">>, <<"2", ".", "0">>, <<"2", ".", "5">>,
     <<"I">>, <<"I", "I">>, <<"X">>}

InitCompare ==
    /\ pc = "start"
    /\ arg \in [a : NumberTexts, b : NumberTexts]
    /\ ret = <<>>
    /\ opt = <<>> /\ disk = {} /\ series = <<>> /\ tree = <<>>
    /\ log = <<>> /\ moves = <<>> /\ ip = 0 /\ mode = <<>> /\ exc = <<>> /\ status = <<>>

NumA == UNumberInit(arg.a).val
NumB == UNumberInit(arg.b).val

\* a == b
CallEq ==
    /\ pc = "start"
    /\ ret' = <<UEq(NumA, NumB)>>
    /\ pc' = "eq"
    /\ UNCHANGED <<progVars, arg>>

\* a < b
CallLt ==
    /\ pc = "eq"
    /\ ret' = Append(ret, ULt(NumA, NumB))
    /\ pc' = "lt"
    /\ UNCHANGED <<progVars, arg>>

\* a > b
CallGt ==
    /\ pc = "lt"
    /\ ret' = Append(ret, UGt(NumA, NumB))
    /\ pc' = "done"
    /\ UNCHANGED <<progVars, arg>>

NextCompare == CallEq \/ CallLt \/ CallGt

SpecCompare == InitCompare /\ [][NextCompare]_vars

\* the pair (whole, decimal or 0) of a number
Pair(u) == <<u.whole, IF IsNone(u.dec) THEN 0 ELSE Get(u.dec)>>

\* C11: equality and order of two numbers are those of their pairs (whole,
\* decimal or 0): a == b iff the pairs are equal, a < b iff the pair of a is
\* lexicographically smaller, and exactly one of a < b, a == b, a > b holds.
C11_TupleOrder ==
    pc = "done" =>
       /\ ret[1] <=> (Pair(NumA) = Pair(NumB))
       /\ ret[2] <=> \/ Pair(NumA)[1] < Pair(NumB)[1]
                     \/ Pair(NumA)[1] = Pair(NumB)[1] /\ Pair(NumA)[2] < Pair(NumB)[2]
       /\ Cardinality({i \in 1..3 : ret[i]}) = 1

-----------------------------------------------------------------------------
(* Parsing of roman text: a library caller hands a text without digits to  *)
(* UNumber.from_roman and to UNumber(text).                                *)

\* bound of the texts: the number of characters
MaxRoman == 4

RomanAlphabet == {"I", "V", "X", "L", "C", "D", "M", "v", "A"}

\* some longer texts: repeated symbols
LongTexts ==
    {<<"M", "M", "M", "M", "M">>, <<"V", "I", "I", "I", "I">>,
     <<"I", "I", "I", "I", "I", "V">>, <<"I", "I", "I", "I", "I", "I", "V">>}

RomanTexts == UNION {[1..k -> RomanAlphabet] : k \in 0..MaxRoman} \cup LongTexts

InitParse ==
    /\ pc = "start"
    /\ arg \in RomanTexts
    /\ ret = <<>>
    /\ opt = <<>> /\ disk = {} /\ series = <<>> /\ tree = <<>>
    /\ log = <<>> /\ moves = <<>> /\ ip = 0 /\ mode = <<>> /\ exc = <<>> /\ status = <<>>

\* UNumber.from_roman(txt)
CallFromRoman ==
    /\ pc = "start"
    /\ ret' = <<from_roman(arg)>>
    /\ pc' = "parsed"
    /\ UNCHANGED <<progVars, arg>>

\* UNumber(txt)
CallUNumber ==
    /\ pc = "parsed"
    /\ ret' = Append(ret, UNumberInit(arg))
    /\ pc' = "done"
    /\ UNCHANGED <<progVars, arg>>

NextParse == CallFromRoman \/ CallUNumber

SpecParse == InitParse /\ [][NextParse]_vars

\* C12: every value obtained by parsing roman text, by from_roman and by
\* UNumber(text), is a whole number in the range [1,4999]; a text whose
\* accumulated value is 0, negative or above 4999 is rejected.
C12_RomanRange ==
    pc = "done" =>
       /\ ret[1].ok => ret[1].val \in 1..(RomanLimit - 1)
       /\ ret[2].ok => ret[2].val.whole \in 1..(RomanLimit - 1) /\ IsNone(ret[2].val.dec)

\* the symbols of a text as from_roman reads them (lower case letters count as
\* their upper case symbols), and their values
Symbol(txt, i) == Upper(txt[i])
Val(txt, i) == R_VALUES[Symbol(txt, i)]

\* some character is not a roman symbol: as written, and as from_roman reads it
ForeignChar(txt) == \E i \in 1..Len(txt) : txt[i] \notin DOMAIN R_VALUES
ForeignSymbol(txt) == \E i \in 1..Len(txt) : Symbol(txt, i) \notin DOMAIN R_VALUES

LargerToRight(txt, i) == \E j \in (i + 1)..Len(txt) : Val(txt, j) > Val(txt, i)

\* V, L or D to the left of a larger symbol
FiveOutOfOrder(txt) ==
    \E i \in 1..Len(txt) : Val(txt, i) \in {5, 50, 500} /\ LargerToRight(txt, i)

\* I, X or C to the left of a symbol more than ten times its value
TenOutOfOrder(txt) ==
    \E i \in 1..Len(txt) :
       /\ Val(txt, i) \in {1, 10, 100}
       /\ \E j \in (i + 1)..Len(txt) : Val(txt, j) > 10 * Val(txt, i)

\* the symbols without a larger symbol to their right, minus the others
RECURSIVE SignedSum(_, _)
SignedSum(txt, i) ==
    IF i > Len(txt) THEN 0
    ELSE (IF LargerToRight(txt, i) THEN 0 - Val(txt, i) ELSE Val(txt, i)) + SignedSum(txt, i + 1)

\* what the claim says of from_roman, for a given reading of "a character
\* outside IVXLCDM"
RomanRule(foreign) ==
    pc # "start" =>
       IF foreign \/ FiveOutOfOrder(arg) \/ TenOutOfOrder(arg)
       THEN ~ret[1].ok /\ ret[1].err = "ValueError"
       ELSE ret[1].ok /\ ret[1].val = SignedSum(arg, 1)

\* C13 as stated: every text holding a character other than the seven capital
\* letters IVXLCDM is rejected.
C13_CapitalsOnly == RomanRule(ForeignChar(arg))

\* C13: from_roman rejects every text whose upper-case form holds a character
\* outside IVXLCDM, every text in which V, L or D stands to the left of a
\* larger symbol and every text in which I, X or C stands to the left of a
\* symbol more than ten times its value; every other text is accepted with the
\* sum of the symbols that have no larger symbol to their right minus the
\* sum of the others.
C13_RomanRule == RomanRule(ForeignSymbol(arg))

C13_Witness ==
    /\ pc = "done" /\ arg = <<"V", "I", "I", "I", "I">>
    /\ ret[1].ok /\ ret[1].val = 9

-----------------------------------------------------------------------------
(* Labels of the nodes without number *)

\* the nodes of the Series that was built: its volumes and their chapters
BuiltVolumes == {Get(series).nodes[i] : i \in 1..Len(Get(series).nodes)}
BuiltChapters == UNION {{v.nodes[i] : i \in 1..Len(v.nodes)} : v \in BuiltVolumes}

HasLabel(node) == ~IsNone(node.extra) /\ Len(Get(node.extra)) > 0

\* C14 as stated: in every mode each Volume and Chapter without number
\* carries a non-empty extra label.
C14_AnyMode ==
    pc = "built" => \A n \in BuiltVolumes \cup BuiltChapters : skip(n) => HasLabel(n)

\* the label of a node begins with the bonus text of its level
BonusLabel(node, o) == HasLabel(node) /\ IsPrefix(Get(o.bonus), Get(node.extra))

\* C14: after the construction of the Series every Chapter without number
\* carries a non-empty label that begins with the bonus text of the chapter
\* level, and in multi-volume mode every Volume without number one that begins
\* with the bonus text of the volume level; the one Volume of single-volume
\* mode has neither number nor label.
C14_Labelled ==
    pc = "built" =>
       /\ \A c \in BuiltChapters : skip(c) => BonusLabel(c, opt.chapter)
       /\ \A v \in BuiltVolumes :
             IF opt.single THEN skip(v) /\ IsNone(v.extra)
             ELSE skip(v) => BonusLabel(v, opt.volume)

C14_Witness ==
    /\ pc = "built" /\ opt.single
    /\ \E v \in BuiltVolumes : skip(v) /\ IsNone(v.extra)
    /\ \E c \in BuiltChapters : skip(c) /\ HasLabel(c)

-----------------------------------------------------------------------------
(* Main.exec *)

\* the action that belongs to a work mode
ActionOf(a) ==
    CASE a = "WorkMode.REPORT" -> "pretty"
      [] a = "WorkMode.DRY_RUN" -> "dry"
      [] a = "WorkMode.ENABLE" -> "run"

\* C15: for each work mode held in the options Main.exec dispatches to the
\* action of that mode (report, simulated run, real run), and returns the
\* exit status 0 when the action has succeeded.
C15_ExecDispatch ==
    (mode # <<>> /\ mode.via = "exec") =>
       /\ mode.what = ActionOf(opt.action)
       /\ pc = "done" => status = Some(0)

-----------------------------------------------------------------------------
(* Rendering with a template: format(node, template) on a chapter *)

\* bound of the templates: the number of pieces
MaxParts == 3

TemplatePieces ==
    {<<"%", "l">>, <<"%", "n">>, <<"%", "p">>, <<"%", "%">>, <<"%", "x">>, <<"a">>, <<" ">>}

Templates == UNION {{Concat(ts) : ts \in [1..k -> TemplatePieces]} : k \in 1..MaxParts}

FormatNodes ==
    {MkNode(<<"T", " ", "c", "0", "1">>, Some(UN(1, None)), <<>>, None),
     MkNode(<<"T", " ", "x">>, None, <<>>, DefaultChapter(Label).bonus)}

FormatParents == {None, Some([number |-> Some(UN(2, None)), o |-> DefaultVolume(Label), w |-> 2])}

InitFormat ==
    /\ pc = "start"
    /\ arg \in [template : Templates, node : FormatNodes, par : FormatParents]
    /\ ret = <<>>
    /\ opt = <<>> /\ disk = {} /\ series = <<>> /\ tree = <<>>
    /\ log = <<>> /\ moves = <<>> /\ ip = 0 /\ mode = <<>> /\ exc = <<>> /\ status = <<>>

\* format(node, template)
CallFormat ==
    /\ pc = "start"
    /\ ret' = FormatSpec(arg.template, arg.node, DefaultChapter(Label), 2, arg.par)
    /\ pc' = IF ret'.ok THEN "done" ELSE "raised"
    /\ UNCHANGED <<progVars, arg>>

NextFormat == CallFormat

SpecFormat == InitFormat /\ [][NextFormat]_vars

\* reading the template from the left, a "%" is followed by a character that
\* is no placeholder ("%%" being the placeholder of a literal "%")
RECURSIVE UnknownFrom(_, _)
UnknownFrom(spec, i) ==
    IF i >= Len(spec) THEN FALSE
    ELSE IF spec[i] # "%" THEN UnknownFrom(spec, i + 1)
    ELSE IF spec[i + 1] \in PlaceholderChars THEN UnknownFrom(spec, i + 2)
    ELSE TRUE

\* C16: rendering with a template that holds "%" followed by a character that
\* is no placeholder fails with a format error, wherever it stands in the
\* template, so that no rendered name holds an unresolved placeholder.
C16_UnknownPlaceholder ==
    (pc # "start" /\ UnknownFrom(arg.template, 1)) =>
       pc = "raised" /\ ret.err = "ValueError"

-----------------------------------------------------------------------------
(* The loop of Series._populate_multi, one volume at a time.  ret holds    *)
(* its local variables: children, the index of the next volume, nxt, and   *)
(* what each call of Volume.populate that returned was given and gave.     *)

PopVolTokens == {<<"v", "0", "2">>, <<"w", "0", "1">>, <<"e", "x", "t", "r", "a">>}
PopChTokens == {<<"c", "0", "1">>, <<"c", "0", "3">>, <<"o", "M", "a", "k", "e">>}

\* --ch-first and --ch-flat
ChapterModes == {[first |-> 1, flat |-> FALSE], [first |-> 4, flat |-> FALSE],
                 [first |-> 4, flat |-> TRUE]}

InitPopulate ==
    \E lay \in Layouts(PopVolTokens, PopChTokens), m \in ChapterModes :
       /\ Start([DefaultOptions(Label, TitlePlain) EXCEPT
                    !.chapter.first = m.first, !.chapter.flat = m.flat],
                LayoutDisk(TitlePlain, lay, TRUE))
       /\ arg = <<>> /\ ret = <<>>

\* Series._populate_multi up to children.sort()
ListVolumes ==
    /\ pc = "start"
    /\ LET names == listdir(disk, SeriesPath(opt))
           expected == [x \in 1..Len(names) |-> opt.volume.first + x - 1]
       IN With(BuildNodes(names, 1, Some(expected), Some(BaseSpurious(<<>>)),
                          opt.volume, <<>>, <<>>), LAMBDA built :
          /\ built.ok
          /\ ret' = [children |-> ListSort(NodeLt, built.val.nodes), i |-> 1,
                     nxt |-> None, calls |-> <<>>]
          /\ pc' = "loop")
    /\ UNCHANGED <<progVars, arg>>

\* one turn of the loop: nxt = vol.populate(nxt, opts.chapter)
PopulateVolume ==
    /\ pc = "loop"
    /\ ret.i <= Len(ret.children)
    /\ LET vol == ret.children[ret.i]
           chapters == listdir(disk, <<opt.root, vol.name>>)
       IN With(populate(vol, Some(BaseSpurious(<<>>)), ret.nxt, opt.chapter, chapters,
                        opt.volume, 2), LAMBDA r :
          IF r.ok
          THEN /\ ret' = [ret EXCEPT !.i = @ + 1, !.nxt = r.val.next,
                             !.calls = Append(@, [vol |-> r.val.vol,
                                                  dirs |-> Len(chapters),
                                                  numbers |-> r.val.numbers])]
               /\ pc' = pc
          ELSE IF r.err = "ValueError"
          THEN ret' = [ret EXCEPT !.i = @ + 1] /\ pc' = pc
          ELSE ret' = ret /\ pc' = "crashed")
    /\ UNCHANGED <<progVars, arg>>

NextPopulate == ListVolumes \/ PopulateVolume

SpecPopulate == InitPopulate /\ [][NextPopulate]_vars

\* the highest whole number of the chapters of a volume, a chapter without
\* number counting as 0
Highest(vol) ==
    LET ns == {0} \cup {Get(vol.nodes[j].number).whole :
                           j \in {x \in 1..Len(vol.nodes) : ~skip(vol.nodes[x])}}
    IN CHOOSE n \in ns : \A m \in ns : m <= n

\* the start of the run of the k-th call: the configured first index in flat
\* mode and before any volume with chapters, else one more than the highest
\* chapter of the last volume with chapters before it
RunStart(k) ==
    LET before == {j \in 1..(k - 1) : ret.calls[j].dirs > 0} IN
    IF opt.chapter.flat \/ before = {} THEN opt.chapter.first
    ELSE Highest(ret.calls[CHOOSE j \in before : \A x \in before : x <= j].vol) + 1

\* C17: the volumes are populated in ascending order of their numbers, and
\* the pool of each is the run of as many integers as it has chapter
\* directories, starting at the configured first index for the first volume
\* and, in non-flat chapter mode, at the highest chapter number of the
\* previous volume with chapters plus one for a later volume; in flat chapter
\* mode every run starts at the configured first index.
C17_ChapterPools ==
    pc = "loop" =>
       /\ \A k \in 1..Len(ret.calls) :
             ret.calls[k].numbers =
                [j \in 1..ret.calls[k].dirs |-> RunStart(k) + j - 1]
       /\ \A k, l \in 1..Len(ret.children) :
             (k < l /\ ~skip(ret.children[l])) =>
                /\ ~skip(ret.children[k])
                /\ Get(ret.children[k].number).whole <= Get(ret.children[l].number).whole

C17_Witness ==
    /\ pc = "loop" /\ ~opt.chapter.flat /\ opt.chapter.first = 4
    /\ Len(ret.calls) = 2
    /\ ret.children[1].name = <<"T", " ", "w", "0", "1">>
    /\ ret.calls[1].numbers = <<4>> /\ Highest(ret.calls[1].vol) = 3
    /\ ret.calls[2].numbers = <<4, 5>>

-----------------------------------------------------------------------------
(* Display widths: numbers of two and three digits, --vol-wide, --ch-wide *)

WideVolTokens == {<<"v", "0", "1">>, <<"v", "1", "0", "0">>}
WideChTokens == {<<"c", "0", "1">>, <<"c", "1", "0", "0">>, <<"o", "M", "a", "k", "e">>}

\* --vol-first, --vol-wide and --ch-wide
WideModes == [first : {1, 99}, vol : {-1, 0, 3}, ch : {-1, 1}]

InitWide ==
    \E lay \in Layouts(WideVolTokens, WideChTokens), m \in WideModes :
       Start([DefaultOptions(Label, TitlePlain) EXCEPT
                 !.volume.first = m.first, !.volume.wide = m.vol, !.chapter.wide = m.ch],
             LayoutDisk(TitlePlain, lay, TRUE))

SpecWide == InitWide /\ [][NextBuild]_vars

\* the number of digits of n
RECURSIVE Digits(_)
Digits(n) == IF n < 10 THEN 1 ELSE 1 + Digits(n \div 10)

\* the largest last-chapter value over the volumes of the Series
LargestLast ==
    LET ls == {0} \cup {Highest(v) : v \in BuiltVolumes}
    IN CHOOSE n \in ls : \A m \in ls : m <= n

\* the width a level uses: the explicit one, else the entry of the Series
LevelWide(o, depth) == IF o.wide >= 0 THEN o.wide ELSE Get(series).wides[depth]

\* C18: after multi-volume population the Series holds for the volume level
\* the width max(2, digits of the highest expected volume index) and for the
\* chapter level max(2, digits of the largest last-chapter value of the
\* populated volumes); every number of the plan is written with the explicit
\* width of its level when that is >= 0 and else with the width the Series
\* holds for its depth.
C18_Widths ==
    pc \in {"built", "planned"} =>
       LET s == Get(series)
           vw == LevelWide(opt.volume, 1)
           cw == LevelWide(opt.chapter, 2)
       IN
       /\ s.wides[1] = Max(2, Digits(opt.volume.first + Len(VolumeDirs) - 1))
       /\ s.wides[2] = Max(2, Digits(LargestLast))
       /\ pc = "planned" =>
             \A i \in 1..Len(s.nodes) :
                LET vol == s.nodes[i]
                    t == Get(tree).nested[i]
                    up == IF skip(vol) THEN <<>>
                          ELSE Sp \o Get(opt.chapter.upper) \o UFormatArabic(Get(vol.number), vw)
                IN
                /\ t.new = Some(RStrip(opt.volume.label \o Sp \o OwnPart(vol, opt.volume, vw)))
                /\ \A j \in 1..Len(vol.nodes) :
                      t.nested[j].new =
                         Some(RStrip(opt.chapter.label \o up \o Sp
                                     \o OwnPart(vol.nodes[j], opt.chapter, cw)))

C18_Witness ==
    /\ pc = "planned" /\ Get(series).wides = <<3, 3>>
    /\ opt.volume.wide = -1 /\ opt.chapter.wide = 1
    /\ Len(Get(tree).nested) = 2
    /\ Get(tree).nested[1].new =
          Some(<<"S", " ", "v", "o", "l", " ", "0", "0", "1", " ", "S", "p", "e", "c", "i", "a", "l">>)
    /\ Get(tree).nested[2].new = Some(<<"S", " ", "v", "o", "l", " ", "1", "0", "0">>)
    /\ Len(Get(tree).nested[2].nested) = 1
    /\ Get(tree).nested[2].nested[1].new =
          Some(<<"S", " ", "v", "1", "0", "0", " ", "c", "1", " ", "o", "M", "a", "k", "e">>)

-----------------------------------------------------------------------------
(* Node._rm_spurious(numbers) called with greedy=False *)

\* bound of the lists: how many numbers a name holds
MaxNumbers == 3

NumberValues == {UN(1, None), UN(2, None), UN(3, None), UN(1, Some(0))}

NumberLists == UNION {[1..k -> NumberValues] : k \in 1..MaxNumbers}

\* what the parent answers to spurious(), hoaxes and level numbers that repeat
\* a value included; None for a node without parent
SpuriousParents ==
    {None} \cup
    {Some(p) : p \in
        [hoax : {<<>>, <<UN(1, None)>>, <<PyInt(2)>>, <<UN(1, Some(0)), UN(2, None)>>,
                 <<UN(1, None), PyInt(1)>>},
         top : {<<>>, <<PyInt(1)>>, <<PyInt(2)>>, <<PyInt(2), PyInt(1)>>}]}

InitSpurious ==
    /\ pc = "start"
    /\ arg \in [numbers : NumberLists, up : SpuriousParents]
    /\ ret = <<>>
    /\ opt = <<>> /\ disk = {} /\ series = <<>> /\ tree = <<>>
    /\ log = <<>> /\ moves = <<>> /\ ip = 0 /\ mode = <<>> /\ exc = <<>> /\ status = <<>>

\* out = self._rm_spurious(numbers): the list returned, and the list of the
\* caller after the call, which the copy made on entry leaves alone
CallRmSpurious ==
    /\ pc = "start"
    /\ ret' = [out |-> rm_spurious(arg.numbers, arg.up, FALSE), numbers |-> arg.numbers]
    /\ pc' = "done"
    /\ UNCHANGED <<progVars, arg>>

NextSpurious == CallRmSpurious

SpecSpurious == InitSpurious /\ [][NextSpurious]_vars

\* how many elements of the list s are the value v
Count(s, v) == Cardinality({i \in 1..Len(s) : s[i] = v})

\* sub is s with some elements left out
RECURSIVE IsSubSeq(_, _)
IsSubSeq(sub, s) ==
    IF Len(sub) = 0 THEN TRUE
    ELSE IF Len(s) = 0 THEN FALSE
    ELSE IF Head(sub) = Head(s) THEN IsSubSeq(Tail(sub), Tail(s))
    ELSE IsSubSeq(sub, Tail(s))

\* the hoaxes and the level numbers of the ancestors
Ancestors == IF IsNone(arg.up) THEN <<>> ELSE Get(arg.up).hoax \o Get(arg.up).top

\* C19: the removal of spurious numbers that is not greedy returns at least
\* one candidate of every list that is not empty, returns a list of one
\* candidate as it is, removes for each hoax and each level number of the
\* ancestors at most one candidate, and leaves the list of the caller as it
\* was.
C19_NonGreedy ==
    pc = "done" =>
       /\ Len(ret.out) >= 1
       /\ Len(arg.numbers) = 1 => ret.out = arg.numbers
       /\ IsSubSeq(ret.out, arg.numbers)
       /\ \A v \in NumberValues :
             Count(arg.numbers, v) - Count(ret.out, v)
                <= Cardinality({i \in 1..Len(Ancestors) : PyEq(Ancestors[i], v)})
       /\ ret.numbers = arg.numbers

C19_Witness ==
    /\ pc = "done"
    /\ arg.numbers = <<UN(1, None), UN(2, None), UN(1, None)>>
    /\ ~IsNone(arg.up) /\ Get(arg.up).hoax = <<UN(1, None), PyInt(1)>>
    /\ Get(arg.up).top = <<PyInt(2), PyInt(1)>>
    /\ ret.out = <<UN(2, None)>>

-----------------------------------------------------------------------------
(* One candidate in the pool: Node._guess and the end of _parse_number *)

\* the candidates left of the name once the spurious numbers are removed, and
\* those of them that are in the pool
Candidates == rm_spurious(ArgNumbers.val, Some(arg.up), FALSE)
Matching == SelectIn(Candidates, Get(arg.expected))

\* the list s without its first element equal to x
RECURSIVE Without(_, _)
Without(s, x) ==
    IF Len(s) = 0 THEN <<>>
    ELSE IF Head(s) = x THEN Tail(s) ELSE <<Head(s)>> \o Without(Tail(s), x)

NoDuplicate(s) == \A i, j \in 1..Len(s) : s[i] = s[j] => i = j

\* C20: when exactly one of the candidates left is in the pool it becomes the
\* number of the node and the other candidates become its hoaxes; a normal
\* number is removed from the pool, whose other elements stay in place, so
\* that the pool no longer holds it; the pool never grows and never gains a
\* duplicate.
C20_OneMatch ==
    (pc # "start" /\ ~IsNone(arg.expected) /\ ArgNumbers.ok) =>
       /\ Len(Matching) = 1 =>
             /\ pc = "done"
             /\ ret.val.node.number = Some(Matching[1])
             /\ ret.val.node.hoaxes = Without(Candidates, Matching[1])
             /\ IF IsNone(Matching[1].dec)
                THEN /\ Get(ret.val.expected) = Without(Get(arg.expected), Matching[1].whole)
                     /\ \A i \in 1..Len(Get(ret.val.expected)) :
                           Get(ret.val.expected)[i] # Matching[1].whole
                     /\ IsNone(ret.val.node.extra)
                ELSE ret.val.expected = arg.expected
       /\ pc = "done" =>
             /\ Len(Get(ret.val.expected)) <= Len(Get(arg.expected))
             /\ NoDuplicate(Get(ret.val.expected))

C20_Witness ==
    /\ pc = "done" /\ ~arg.roman
    /\ arg.name = <<"1", " ", "2">> /\ arg.expected = Some(<<2, 3>>)
    /\ arg.up = [hoax |-> <<>>, top |-> <<>>]
    /\ ret.val.node.number = Some(UN(2, None))
    /\ ret.val.node.hoaxes = <<UN(1, None)>>
    /\ ret.val.expected = Some(<<3>>)

-----------------------------------------------------------------------------
(* No candidate in the pool: the greedy branch of Node._guess *)

\* the candidates left after the removal is run again on them, greedy
Survivors == rm_spurious(Candidates, Some(arg.up), TRUE)

\* a pool is given and none of the candidates left is in it
NoneInPool == ~IsNone(arg.expected) /\ ArgNumbers.ok /\ Len(Matching) = 0

\* C21: when none of the candidates left is in the pool the removal of the
\* spurious numbers is run again, greedy; with no survivor the node is a bonus
\* entry, without number and with the bonus label of the level; otherwise its
\* number is the first survivor, the other survivors are its hoaxes, and a
\* normal number gives it the special label of the level; the pool is left
\* as it was.
C21_GreedyFallback ==
    (pc # "start" /\ NoneInPool) =>
       /\ pc = "done"
       /\ ret.val.expected = arg.expected
       /\ IF Len(Survivors) = 0
          THEN /\ IsNone(ret.val.node.number)
               /\ ret.val.node.extra = DefaultChapter(Label).bonus
               /\ ret.val.node.hoaxes = <<>>
          ELSE /\ ret.val.node.number = Some(Survivors[1])
               /\ ret.val.node.hoaxes = Tail(Survivors)
               /\ ret.val.node.extra =
                     IF IsNone(Survivors[1].dec) THEN DefaultChapter(Label).special ELSE None

\* '1 1 2.5' under a volume 1 with the pool 2, 3: one 1 goes as level number
\* in the first removal and the other in the greedy one; 2.5 is the number
C21_Witness ==
    /\ pc = "done" /\ NoneInPool /\ ~arg.roman
    /\ arg.name = <<"1", " ", "1", " ", "2", ".", "5">>
    /\ arg.expected = Some(<<2, 3>>)
    /\ arg.up = [hoax |-> <<>>, top |-> <<PyInt(1)>>]
    /\ Candidates = <<UN(1, None), UN(2, Some(5))>>
    /\ ret.val.node.number = Some(UN(2, Some(5)))
    /\ ret.val.node.hoaxes = <<>>
    /\ IsNone(ret.val.node.extra)

-----------------------------------------------------------------------------
(* One call of Volume.populate on a volume and the chapter directories in  *)
(* it.  arg is the volume token, the chapter tokens and the value of       *)
(* `last`; ret is the Volume, then what populate returns.                  *)

\* bound of the volume: how many chapter directories it holds
MaxDirs == 4

DirVolTokens == {<<"v", "0", "1">>, <<"v", "0", "2">>}
DirChTokens == {<<"c", "0", "1">>, <<"c", "0", "2">>, <<"c", "0", "4">>, <<"b", "0", "1">>,
                <<"c", "1", ".", "5">>, <<"o", "M", "a", "k", "e">>, <<"e", "x", "t", "r", "a">>,
                <<"z", "z">>}

InitVolume ==
    /\ pc = "start"
    /\ arg \in [vt : DirVolTokens, cts : SubsetsUpTo(DirChTokens, MaxDirs),
                last : {None, Some(3)}]
    /\ ret = <<>>
    /\ opt = <<>> /\ disk = {} /\ series = <<>> /\ tree = <<>>
    /\ log = <<>> /\ moves = <<>> /\ ip = 0 /\ mode = <<>> /\ exc = <<>> /\ status = <<>>

\* Volume(self, name, expected, opts.volume) of a series of two volumes
NewVolume ==
    /\ pc = "start"
    /\ ret' = parse_number(VolName(TitlePlain, arg.vt), Some(<<1, 2>>),
                           Some(BaseSpurious(<<>>)), DefaultVolume(Label))
    /\ pc' = "volume"
    /\ UNCHANGED <<progVars, arg>>

\* vol.populate(last, opts.chapter)
CallPopulate ==
    /\ pc = "volume"
    /\ ret' = populate(ret.val.node, Some(BaseSpurious(<<>>)), arg.last,
                       DefaultChapter(Label),
                       SortedNames({ChName(TitlePlain, arg.vt, ct) : ct \in arg.cts}),
                       DefaultVolume(Label), 2)
    /\ pc' = IF ret'.ok THEN "done" ELSE "raised"
    /\ UNCHANGED <<progVars, arg>>

NextVolume == NewVolume \/ CallPopulate

SpecVolume == InitVolume /\ [][NextVolume]_vars

\* the chapters of the volume populated
Chapters == ret.val.vol.nodes

\* the slots no chapter consumed: the pool as it was created without the
\* numbers of the chapters that hold a normal number and no label
Unconsumed ==
    SelectSeq(ret.val.numbers,
              LAMBDA n : ~\E j \in 1..Len(Chapters) :
                            /\ is_normal(Chapters[j]) /\ IsNone(Chapters[j].extra)
                            /\ Get(Chapters[j].number).whole = n)

\* the slots the call reports as missing chapters
Reported ==
    IF \E k \in 1..Len(ret.log) : ret.log[k].msg = "Volume Missing"
    THEN ret.log[CHOOSE k \in 1..Len(ret.log) : ret.log[k].msg = "Volume Missing"].data
    ELSE <<>>

\* how many chapters are numberless or hold a number that is not normal
NotNormal == Cardinality({j \in 1..Len(Chapters) : ~is_normal(Chapters[j])})

\* how many slots at the end of the list s run down from n without a gap
RECURSIVE TopRun(_, _)
TopRun(s, n) ==
    IF Len(s) = 0 \/ s[Len(s)] # n THEN 0
    ELSE 1 + TopRun(SubSeq(s, 1, Len(s) - 1), n - 1)

Min(a, b) == IF a < b THEN a ELSE b

Populated == pc = "done" /\ Cardinality(arg.cts) > 0

\* the top slot of the pool
Top == ret.val.numbers[Len(ret.val.numbers)]

\* C22 as stated: at most one slot is discarded, the top one, and every other
\* slot no chapter consumed is reported as missing.
C22_OneSlot ==
    Populated =>
       \/ Reported = Unconsumed
       \/ /\ Len(Unconsumed) > 0
          /\ Unconsumed[Len(Unconsumed)] = Top
          /\ Reported = SubSeq(Unconsumed, 1, Len(Unconsumed) - 1)

\* C22: one call discards one slot for each chapter that is numberless or
\* not normal, as long as the highest slot left is the top one or the one
\* next below the slot discarded last; the slots discarded are the highest of
\* the pool, without a gap down from the top one, and every other slot no
\* chapter consumed is reported as missing.
C22_TopSlots ==
    Populated =>
       Reported = SubSeq(Unconsumed, 1,
                         Len(Unconsumed) - Min(NotNormal, TopRun(Unconsumed, Top)))

\* c01 'c1.5' extra oMake in volume 1: of the slots 2, 3, 4 left the two
\* highest are discarded and 2 is reported
C22_Witness ==
    /\ Populated /\ IsNone(arg.last) /\ arg.vt = <<"v", "0", "1">>
    /\ arg.cts = {<<"c", "0", "1">>, <<"c", "1", ".", "5">>, <<"e", "x", "t", "r", "a">>, <<"z", "z">>}
    /\ Unconsumed = <<2, 3, 4>>
    /\ NotNormal = 3
    /\ Reported = <<>>

-----------------------------------------------------------------------------
(* Numbers given with --hoax *)

UserVolTokens == {<<"v", "0", "1">>, <<"v", "0", "2">>, <<"v", "0", "3", " ", "2">>}
UserChTokens == {<<"c", "0", "2">>, <<"2", " ", "c", "0", "1">>, <<"o", "M", "a", "k", "e">>}

\* the command lines `--hoax 2 S T` and `--hoax 3 --hoax 2 S T`
UserHoaxes == {<<2>>, <<3, 2>>}

InitUser ==
    \E lay \in Layouts(UserVolTokens, UserChTokens), user \in UserHoaxes :
       Start([DefaultOptions(Label, TitlePlain) EXCEPT !.hoax = user],
             LayoutDisk(TitlePlain, lay, TRUE))

SpecUser == InitUser /\ [][NextBuild]_vars

\* the number x is one of the numbers given with --hoax
Declared(x) == \E i \in 1..Len(opt.hoax) : PyEq(x, PyInt(opt.hoax[i]))

\* the nodes built with, for each, the hoaxes its parent hands down
BuiltUnder ==
    {[node |-> v, hoax |-> Get(series).hoaxes] : v \in BuiltVolumes}
    \cup UNION {{[node |-> v.nodes[i], hoax |-> v.hoaxes \o Get(series).hoaxes] :
                    i \in 1..Len(v.nodes)} : v \in BuiltVolumes}

\* the name holds the number h once, and a number that no ancestor hands down
\* as hoax
OnceBesideOther(b, h) ==
    LET numbers == extract_numbers(b.node.name, FALSE).val IN
    /\ Cardinality({i \in 1..Len(numbers) : PyEq(numbers[i], h)}) = 1
    /\ \E i \in 1..Len(numbers) : ~PyIn(numbers[i], b.hoax)

\* C23 as stated: a number given with --hoax never is the number of a volume
\* or of a chapter.
C23_NeverAssigned ==
    (pc \in {"built", "planned"} /\ ~IsNone(series)) =>
       \A b \in BuiltUnder : ~skip(b.node) => ~Declared(Get(b.node.number))

\* C23: a number given with --hoax never is the number of a volume or of a
\* chapter whose name holds it once, beside a number that is no hoax.
C23_OnceIgnored ==
    (pc \in {"built", "planned"} /\ ~IsNone(series)) =>
       \A b \in BuiltUnder : \A i \in 1..Len(opt.hoax) :
          (~skip(b.node) /\ OnceBesideOther(b, PyInt(opt.hoax[i])))
             => ~PyEq(Get(b.node.number), PyInt(opt.hoax[i]))

\* --hoax 2: the chapter 'T v01 2 c01' of volume 1 is chapter 1
C23_Witness ==
    /\ pc = "built" /\ ~IsNone(series) /\ opt.hoax = <<2>>
    /\ \E b \in BuiltUnder :
          /\ b.node.name = <<"T", " ", "v", "0", "1", " ", "2", " ", "c", "0", "1">>
          /\ OnceBesideOther(b, PyInt(2))
          /\ b.node.number = Some(UN(1, None))
          /\ IsNone(b.node.extra)

-----------------------------------------------------------------------------
(* The order of the siblings: self._nodes.sort() and children.sort() *)

OrderVolTokens == {<<"v", "0", "1">>, <<"v", "0", "2">>, <<"w", "0", "1">>,
                   <<"e", "x", "t", "r", "a">>}
OrderChTokens == {<<"a", "1", ".", "0">>, <<"b", "0", "1">>, <<"c", "0", "1">>,
                  <<"c", "1", ".", "5">>, <<"o", "M", "a", "k", "e">>}

\* one to MaxVol volumes that all hold the same up to MaxDirs chapters
InitOrder ==
    \E V \in SubsetsUpTo(OrderVolTokens, MaxVol) \ {{}},
       cts \in SubsetsUpTo(OrderChTokens, MaxDirs) :
       Start(DefaultOptions(Label, TitlePlain),
             LayoutDisk(TitlePlain, [vt \in V |-> cts], TRUE))

SpecOrder == InitOrder /\ [][NextBuild]_vars

\* the list of siblings s is in order: numbered before numberless, numbers
\* not decreasing, and with equal numbers no label before a label and the
\* labels not decreasing
InOrder(s) ==
    \A i, j \in 1..Len(s) :
       (i < j /\ ~skip(s[j])) =>
          /\ ~skip(s[i])
          /\ ~ULt(Get(s[j].number), Get(s[i].number))
          /\ (UEq(Get(s[i].number), Get(s[j].number)) /\ ~IsNone(s[i].extra)) =>
                /\ ~IsNone(s[j].extra)
                /\ ~StrLt(Get(s[j].extra), Get(s[i].extra))

\* the transforms nested in t are those of the nodes s, one by one
SameOrder(t, s) ==
    /\ Len(t.nested) = Len(s)
    /\ \A i \in 1..Len(s) : t.nested[i].old = s[i].name

-----------------------------------------------------------------------------
(* The labels of the numberless chapters of one volume *)

\* the positions of the numberless chapters, and how many of them come up to
\* position j
BonusAt == {j \in 1..Len(Chapters) : skip(Chapters[j])}
BonusRank(j) == Cardinality({x \in BonusAt : x <= j})

\* the name the plan gives the chapter at position j
Rendered(j) ==
    Format(Chapters[j], DefaultChapter(Label), 2,
           Some([number |-> ret.val.vol.number, o |-> DefaultVolume(Label), w |-> 2]))

\* C25: after Volume.populate the first numberless chapter in sorted order
\* carries the bonus label and the k-th the bonus label followed by ' k', so
\* the labels and the rendered names of two numberless chapters of the volume
\* differ.
C25_BonusLabels ==
    Populated =>
       /\ \A j \in BonusAt :
             Chapters[j].extra =
                Some(IF BonusRank(j) = 1 THEN Get(DefaultChapter(Label).bonus)
                     ELSE Get(DefaultChapter(Label).bonus) \o Sp \o IntStr(BonusRank(j)))
       /\ \A i, j \in BonusAt :
             i # j => /\ Chapters[i].extra # Chapters[j].extra
                      /\ Rendered(i).ok /\ Rendered(j).ok
                      /\ Rendered(i).val # Rendered(j).val

\* extra, oMake and zz in volume 1 after three chapters: Bonus, Bonus 2 and
\* Bonus 3
C25_Witness ==
    /\ Populated /\ arg.last = Some(3) /\ arg.vt = <<"v", "0", "1">>
    /\ arg.cts = {<<"e", "x", "t", "r", "a">>, <<"o", "M", "a", "k", "e">>, <<"z", "z">>}
    /\ BonusAt = {1, 2, 3}
    /\ Chapters[3].extra = Some(<<"B", "o", "n", "u", "s", " ", "3">>)
    /\ Rendered(3).val = <<"S", " ", "v", "0", "1", " ", "B", "o", "n", "u", "s", " ", "3">>

-----------------------------------------------------------------------------
(* numbers[-1] in the loop of Volume.populate that drops the top slots *)

\* C26: the loop that drops the top slots never reads the last element of an
\* empty pool: a volume whose chapters were all constructed has at least as
\* many slots no chapter consumed as chapters that are numberless or not
\* normal, each of which drops one slot at most, and populate does not fail
\* with an index error.
C26_NoIndexError ==
    /\ pc = "raised" => ret.err # "IndexError"
    /\ Populated => Len(Unconsumed) >= NotNormal

\* c01 and 'c1.5' in volume 1: one slot, 2, is left when 'c1.5' is examined
C26_Witness ==
    /\ Populated /\ IsNone(arg.last) /\ arg.vt = <<"v", "0", "1">>
    /\ arg.cts = {<<"c", "0", "1">>, <<"c", "1", ".", "5">>}
    /\ Unconsumed = <<2>>
    /\ NotNormal = 1
    /\ Reported = <<>>

-----------------------------------------------------------------------------
(* One plain node for each number of the pool *)

\* the node holds a normal number and no label
Plain(node) == is_normal(node) /\ IsNone(node.extra)

\* among the siblings s a normal number is held by one plain node at most,
\* and every other node that holds it carries the special label of the level
PlainOnce(s, o) ==
    \A i, j \in 1..Len(s) :
       (i # j /\ Plain(s[i]) /\ is_normal(s[j])
              /\ Get(s[i].number).whole = Get(s[j].number).whole) =>
          s[j].extra = o.special

\* C27: among the volumes of the series and among the chapters of a volume a
\* normal number is held by at most one node without label; a sibling whose
\* name gives a number already taken from the pool carries the special label
\* or is a bonus entry with the bonus label and no number.
C27_PlainOnce ==
    (pc \in {"built", "planned"} /\ ~IsNone(series)) =>
       /\ PlainOnce(Get(series).nodes, opt.volume)
       /\ \A v \in BuiltVolumes : PlainOnce(v.nodes, opt.chapter)
       /\ \A v \in BuiltVolumes : skip(v) => BonusLabel(v, opt.volume)
       /\ \A c \in BuiltChapters : skip(c) => BonusLabel(c, opt.chapter)

\* 'T v01' and 'T w01' with b01 and c01 each: w01 is the special volume 1,
\* and in volume 1 b01 is chapter 1 and c01 a bonus chapter
C27_Witness ==
    /\ pc = "built" /\ ~IsNone(series)
    /\ Len(Get(series).nodes) = 2
    /\ Get(series).nodes[1].name = <<"T", " ", "v", "0", "1">>
    /\ Plain(Get(series).nodes[1])
    /\ Get(series).nodes[2].number = Some(UN(1, None))
    /\ Get(series).nodes[2].extra = opt.volume.special
    /\ Len(Get(series).nodes[1].nodes) = 2
    /\ Plain(Get(series).nodes[1].nodes[1])
    /\ Get(series).nodes[1].nodes[1].name = <<"T", " ", "v", "0", "1", " ", "b", "0", "1">>
    /\ skip(Get(series).nodes[1].nodes[2])

-----------------------------------------------------------------------------
(* The new names of the siblings in the plan *)

\* the transforms nested in t have new names that differ
DistinctNew(t) ==
    \A i, j \in 1..Len(t.nested) : i # j => t.nested[i].new # t.nested[j].new

\* C28: in the plan of a tree that was constructed the new names of the
\* volumes differ, and so do the new names of the chapters of one volume.
C28_DistinctTargets ==
    (pc = "planned" /\ ~IsNone(tree)) =>
       /\ DistinctNew(Get(tree))
       /\ \A i \in 1..Len(Get(tree).nested) : DistinctNew(Get(tree).nested[i])

-----------------------------------------------------------------------------
(* The target of a move in enable mode *)

\* the step moves a directory: old.replace(new) was called and returned
Moved ==
    /\ pc = "run" /\ Len(moves') = Len(moves) + 1
    /\ moves'[Len(moves')].kind = "mv"

\* C29: in enable mode no directory is moved to a path that a directory
\* other than the source occupies at the time of the move.
C29_FreeTarget ==
    [][Moved => ~Exists(disk, moves'[Len(moves')].new)]_vars

-----------------------------------------------------------------------------
(* Node.__lt__ on the chapters constructed for one volume *)

SiblingTokens == {<<"c", "0", "1">>, <<"b", "0", "1">>, <<"c", "1", ".", "5">>,
                  <<"d", "1", ".", "5">>, <<"o", "M", "a", "k", "e">>, <<"z", "z">>}

InitSiblings ==
    /\ pc = "start"
    /\ arg \in [vt : DirVolTokens, cts : SubsetsUpTo(SiblingTokens, MaxDirs) \ {{}}]
    /\ ret = <<>>
    /\ opt = <<>> /\ disk = {} /\ series = <<>> /\ tree = <<>>
    /\ log = <<>> /\ moves = <<>> /\ ip = 0 /\ mode = <<>> /\ exc = <<>> /\ status = <<>>

\* self._nodes = [Chapter(self, c, numbers, opts) for c in chapters], in the
\* volume of the name given
BuildGroup ==
    /\ pc = "start"
    /\ LET vol == parse_number(VolName(TitlePlain, arg.vt), Some(<<1, 2>>),
                               Some(BaseSpurious(<<>>)), DefaultVolume(Label)).val.node
           chapters == SortedNames({ChName(TitlePlain, arg.vt, ct) : ct \in arg.cts})
       IN With(BuildNodes(chapters, 1, Some([k \in 1..Len(chapters) |-> k]),
                          Some(spurious(vol, Some(BaseSpurious(<<>>)))),
                          DefaultChapter(Label), <<>>, <<>>), LAMBDA built :
          /\ built.ok
          /\ ret' = [nodes |-> built.val.nodes, a |-> 0, b |-> 0, lt |-> FALSE, gt |-> FALSE]
          /\ pc' = "group")
    /\ UNCHANGED <<progVars, arg>>

\* a < b and b < a for two of the chapters
CompareSiblings ==
    /\ pc = "group"
    /\ \E i, j \in 1..Len(ret.nodes) :
          /\ i # j
          /\ ret' = [ret EXCEPT !.a = i, !.b = j,
                                !.lt = NodeLt(ret.nodes[i], ret.nodes[j]),
                                !.gt = NodeLt(ret.nodes[j], ret.nodes[i])]
    /\ pc' = "compared"
    /\ UNCHANGED <<progVars, arg>>

NextSiblings == BuildGroup \/ CompareSiblings

SpecSiblings == InitSiblings /\ [][NextSiblings]_vars

\* C30: for no two chapters a and b constructed for one volume both a < b
\* and b < a hold.
C30_Asymmetric == pc = "compared" => ~(ret.lt /\ ret.gt)

====
